---- MODULE Spec2Model ----
(***************************************************************************)
(* Model of the minimemory vector store: VectorDB (VectorDB.ts), its BM25  *)
(* keyword index (BM25Index.ts, TextUtils.ts) and the metadata filter      *)
(* evaluator (VectorDB.ts).                                                *)
(*                                                                         *)
(* Representation of JavaScript values                                     *)
(*   undefined   [t |-> "undefined"]                                       *)
(*   null        [t |-> "null"]                                            *)
(*   number      [t |-> "number",  v |-> an integer]                       *)
(*   boolean     [t |-> "boolean", v |-> TRUE or FALSE]                    *)
(*   string      [t |-> "string",  v |-> sequence of characters]           *)
(*   array       [t |-> "array",   v |-> sequence of values]               *)
(*   object      [t |-> "object",  v |-> function from keys to values]     *)
(* A string is a sequence of one-character strings, so that split,         *)
(* toLowerCase, the tokenizer's regular expressions and localeCompare are  *)
(* computed character by character.  Object keys are such sequences too.   *)
(***************************************************************************)
EXTENDS Integers, Sequences, FiniteSets, TLC

\* ------------------------------------------------------------------------
\* Bounds of the model
\* ------------------------------------------------------------------------

\* largest number of records the store is driven to
MaxVectors == 2

\* largest result count k asked of a search
MaxK == 2

\* ------------------------------------------------------------------------
\* JavaScript values
\* ------------------------------------------------------------------------

Undef == [t |-> "undefined"]

Null == [t |-> "null"]

Num(n) == [t |-> "number", v |-> n]

Bool(b) == [t |-> "boolean", v |-> b]

Str(s) == [t |-> "string", v |-> s]

Arr(s) == [t |-> "array", v |-> s]

Obj(f) == [t |-> "object", v |-> f]

\* the object with no own property
EmptyMap == [k \in {} |-> Undef]

\* ToBoolean: what `if (x)`, `!x` and `x || y` test
Truthy(x) ==
  CASE x.t = "undefined" -> FALSE
    [] x.t = "null" -> FALSE
    [] x.t = "number" -> x.v # 0
    [] x.t = "boolean" -> x.v
    [] x.t = "string" -> Len(x.v) > 0
    [] OTHER -> TRUE

\* a === b.  Two objects or arrays are equal only when they are the same
\* reference; a stored metadata value and a filter operand never are.
StrictEq(a, b) ==
  /\ a.t = b.t
  /\ CASE a.t \in {"undefined", "null"} -> TRUE
       [] a.t \in {"number", "boolean", "string"} -> a.v = b.v
       [] OTHER -> FALSE

\* ------------------------------------------------------------------------
\* Characters
\* ------------------------------------------------------------------------

Digits == <<"0", "1", "2", "3", "4", "5", "6", "7", "8", "9">>

LowerLetters ==
  <<"a", "b", "c", "d", "e", "f", "g", "h", "i", "j", "k", "l", "m",
    "n", "o", "p", "q", "r", "s", "t", "u", "v", "w", "x", "y", "z">>

UpperLetters ==
  <<"A", "B", "C", "D", "E", "F", "G", "H", "I", "J", "K", "L", "M",
    "N", "O", "P", "Q", "R", "S", "T", "U", "V", "W", "X", "Y", "Z">>

\* white space and punctuation, in the order the root collation gives them
Punctuation == <<" ", "-", ",", "!", ".", "[", "]", "$">>

Range(s) == {s[i] : i \in DOMAIN s}

IndexOf(s, c) == CHOOSE i \in DOMAIN s : s[i] = c

IsDigit(c) == c \in Range(Digits)

IsLetter(c) == c \in Range(LowerLetters) \cup Range(UpperLetters)

IsSpace(c) == c = " "

\* String.prototype.toLowerCase, one character
LowerChar(c) ==
  IF c \in Range(UpperLetters) THEN LowerLetters[IndexOf(UpperLetters, c)] ELSE c

toLowerCase(s) == [i \in DOMAIN s |-> LowerChar(s[i])]

\* s.includes(sub)
includes(s, sub) ==
  \E i \in 0..(Len(s) - Len(sub)) : SubSeq(s, i + 1, i + Len(sub)) = sub

\* s.startsWith(sub)
startsWith(s, sub) == Len(sub) <= Len(s) /\ SubSeq(s, 1, Len(sub)) = sub

\* s.endsWith(sub)
endsWith(s, sub) ==
  Len(sub) <= Len(s) /\ SubSeq(s, Len(s) - Len(sub) + 1, Len(s)) = sub

\* s.split(sep) for a one-character separator
RECURSIVE split(_, _)
split(s, sep) ==
  IF \A i \in DOMAIN s : s[i] # sep
  THEN <<s>>
  ELSE LET i == CHOOSE j \in DOMAIN s :
                  s[j] = sep /\ \A h \in 1..(j - 1) : s[h] # sep
       IN <<SubSeq(s, 1, i - 1)>> \o split(SubSeq(s, i + 1, Len(s)), sep)

\* decimal digits of a natural number
RECURSIVE NatToString(_)
NatToString(n) ==
  IF n < 10 THEN <<Digits[n + 1]>>
  ELSE NatToString(n \div 10) \o <<Digits[(n % 10) + 1]>>

\* s1, s2, ... joined by sep
RECURSIVE join(_, _)
join(parts, sep) ==
  IF Len(parts) = 0 THEN <<>>
  ELSE IF Len(parts) = 1 THEN parts[1]
  ELSE parts[1] \o sep \o join(Tail(parts), sep)

\* String(x)
RECURSIVE StringOf(_)
StringOf(x) ==
  CASE x.t = "undefined" -> <<"u", "n", "d", "e", "f", "i", "n", "e", "d">>
    [] x.t = "null" -> <<"n", "u", "l", "l">>
    [] x.t = "number" ->
         IF x.v < 0 THEN <<"-">> \o NatToString(0 - x.v) ELSE NatToString(x.v)
    [] x.t = "boolean" ->
         IF x.v THEN <<"t", "r", "u", "e">> ELSE <<"f", "a", "l", "s", "e">>
    [] x.t = "string" -> x.v
    [] x.t = "array" ->
         join([i \in DOMAIN x.v |->
                 IF x.v[i].t \in {"undefined", "null"} THEN <<>>
                 ELSE StringOf(x.v[i])], <<",">>)
    [] OTHER ->
         <<"[", "o", "b", "j", "e", "c", "t", " ",
           "O", "b", "j", "e", "c", "t", "]">>

\* primary collation weight of a character: white space and punctuation
\* before digits before letters, letters without regard to case
PrimaryWeight(c) ==
  IF c \in Range(Punctuation) THEN IndexOf(Punctuation, c)
  ELSE IF IsDigit(c) THEN 100 + IndexOf(Digits, c)
  ELSE 200 + IndexOf(LowerLetters, LowerChar(c))

\* sign of the first difference of two weight sequences, a prefix first
RECURSIVE CompareWeights(_, _)
CompareWeights(a, b) ==
  IF Len(a) = 0 THEN (IF Len(b) = 0 THEN 0 ELSE -1)
  ELSE IF Len(b) = 0 THEN 1
  ELSE IF a[1] < b[1] THEN -1
  ELSE IF a[1] > b[1] THEN 1
  ELSE CompareWeights(Tail(a), Tail(b))

\* sign of a.localeCompare(b) under the root collation: primary weights
\* first, then case, lower case first
localeCompare(a, b) ==
  LET p == CompareWeights([i \in DOMAIN a |-> PrimaryWeight(a[i])],
                          [i \in DOMAIN b |-> PrimaryWeight(b[i])])
  IN IF p # 0 THEN p
     ELSE CompareWeights(
            [i \in DOMAIN a |-> IF a[i] \in Range(UpperLetters) THEN 1 ELSE 0],
            [i \in DOMAIN b |-> IF b[i] \in Range(UpperLetters) THEN 1 ELSE 0])

\* the value Date.parse gives no timestamp for
NaN == [t |-> "NaN"]

\* Date.parse.  A string without a digit is no date.  A single digit d is
\* read as month d of 2001 ("0" as the start of 2000), counted in months
\* since 2000.  Strings of other shapes are not drawn by the model.
DateParse(s) ==
  IF Len(s) = 1 /\ IsDigit(s[1])
  THEN LET d == IndexOf(Digits, s[1]) - 1 IN Num(IF d = 0 THEN 0 ELSE 11 + d)
  ELSE NaN

Sign(n) == IF n < 0 THEN -1 ELSE IF n > 0 THEN 1 ELSE 0

\* ------------------------------------------------------------------------
\* Metadata filter evaluation (VectorDB.ts)
\* ------------------------------------------------------------------------

AndKey == <<"$", "a", "n", "d">>

OrKey == <<"$", "o", "r">>

LengthKey == <<"l", "e", "n", "g", "t", "h">>

\* the property key that names position i (counted from 1) of an array
IndexKey(i) == NatToString(i - 1)

\* x[key] for a value that is not null or undefined: an own property of an
\* object, an element or the length of an array, undefined otherwise
Prop(x, key) ==
  CASE x.t = "object" -> IF key \in DOMAIN x.v THEN x.v[key] ELSE Undef
    [] x.t = "array" ->
         IF key = LengthKey THEN Num(Len(x.v))
         ELSE IF \E i \in DOMAIN x.v : IndexKey(i) = key
         THEN x.v[CHOOSE i \in DOMAIN x.v : IndexKey(i) = key]
         ELSE Undef
    [] OTHER -> Undef

\* Object.entries(x), as a set of <<key, value>>
Entries(x) ==
  CASE x.t = "object" -> {<<k, x.v[k]>> : k \in DOMAIN x.v}
    [] x.t = "array" -> {<<IndexKey(i), x.v[i]>> : i \in DOMAIN x.v}
    [] x.t = "string" -> {<<IndexKey(i), Str(<<x.v[i]>>)>> : i \in DOMAIN x.v}
    [] OTHER -> {}

\* whether `for (const e of x)` can iterate x
Iterable(x) == x.t \in {"array", "string"}

\* the values `for (const e of x)` visits, in order
Elements(x) ==
  IF x.t = "array" THEN x.v ELSE [i \in DOMAIN x.v |-> Str(<<x.v[i]>>)]

\* the loop of getNestedValue over the parts of the path
RECURSIVE WalkPath(_, _)
WalkPath(current, parts) ==
  IF parts = <<>> THEN current
  ELSE IF current.t \in {"null", "undefined"} THEN Undef
  ELSE IF current.t \notin {"object", "array"} THEN Undef
  ELSE WalkPath(Prop(current, Head(parts)), Tail(parts))

\* getNestedValue that reads the whole path as one property name
getNestedValueOfWholeKey(obj, path) ==
  IF ~Truthy(obj) THEN Undef ELSE Prop(obj, path)

getNestedValue(obj, path) ==
  IF ~Truthy(obj) THEN Undef ELSE WalkPath(obj, split(path, "."))

\* sign of compareValues(a, b).  Metadata and operands are JSON values, so
\* neither is a Date instance and the first branch of the code is not taken.
compareValues(a, b) ==
  IF a.t = "string" /\ b.t = "string"
  THEN LET dateA == DateParse(a.v)
           dateB == DateParse(b.v)
       IN IF dateA.t # "NaN" /\ dateB.t # "NaN"
          THEN Sign(dateA.v - dateB.v)
          ELSE localeCompare(a.v, b.v)
  ELSE IF a.t = "number" /\ b.t = "number"
  THEN Sign(a.v - b.v)
  ELSE localeCompare(StringOf(a), StringOf(b))

isFilterCondition(value) ==
  /\ Truthy(value)
  /\ value.t \in {"object", "array"}
  /\ LET keys == {e[1] : e \in Entries(value)}
     IN /\ keys # {}
        /\ \A k \in keys : Len(k) > 0 /\ k[1] = "$"

\* operand.includes(fieldValue) for an array operand
ArrayIncludes(operand, fieldValue) ==
  \E i \in DOMAIN operand.v : StrictEq(operand.v[i], fieldValue)

\* one case of the switch of evaluateCondition: TRUE when the operator does
\* not make the condition fail
OperatorPasses(operator, fieldValue, operand) ==
  CASE operator = <<"$", "e", "q">> -> StrictEq(fieldValue, operand)
    [] operator = <<"$", "n", "e">> -> ~StrictEq(fieldValue, operand)
    [] operator = <<"$", "g", "t">> ->
         ~(fieldValue.t = "undefined" \/ compareValues(fieldValue, operand) <= 0)
    [] operator = <<"$", "g", "t", "e">> ->
         ~(fieldValue.t = "undefined" \/ compareValues(fieldValue, operand) < 0)
    [] operator = <<"$", "l", "t">> ->
         ~(fieldValue.t = "undefined" \/ compareValues(fieldValue, operand) >= 0)
    [] operator = <<"$", "l", "t", "e">> ->
         ~(fieldValue.t = "undefined" \/ compareValues(fieldValue, operand) > 0)
    [] operator = <<"$", "i", "n">> ->
         ~(operand.t # "array" \/ ~ArrayIncludes(operand, fieldValue))
    [] operator = <<"$", "n", "i", "n">> ->
         ~(operand.t # "array" \/ ArrayIncludes(operand, fieldValue))
    [] operator = <<"$", "e", "x", "i", "s", "t", "s">> ->
         /\ ~(StrictEq(operand, Bool(TRUE)) /\ fieldValue.t = "undefined")
         /\ ~(StrictEq(operand, Bool(FALSE)) /\ fieldValue.t # "undefined")
    [] operator = <<"$", "c", "o", "n", "t", "a", "i", "n", "s">> ->
         /\ fieldValue.t = "string" /\ operand.t = "string"
         /\ includes(toLowerCase(fieldValue.v), toLowerCase(operand.v))
    [] operator = <<"$", "s", "t", "a", "r", "t", "s", "W", "i", "t", "h">> ->
         /\ fieldValue.t = "string" /\ operand.t = "string"
         /\ startsWith(toLowerCase(fieldValue.v), toLowerCase(operand.v))
    [] operator = <<"$", "e", "n", "d", "s", "W", "i", "t", "h">> ->
         /\ fieldValue.t = "string" /\ operand.t = "string"
         /\ endsWith(toLowerCase(fieldValue.v), toLowerCase(operand.v))
    [] OTHER -> TRUE

\* evaluateCondition that is content with one operator that passes
evaluateConditionAny(fieldValue, condition) ==
  \E e \in Entries(condition) : OperatorPasses(e[1], fieldValue, e[2])

evaluateCondition(fieldValue, condition) ==
  \A e \in Entries(condition) : OperatorPasses(e[1], fieldValue, e[2])

\* one pass of the field loop of evaluateFilter: TRUE when the field does
\* not make the filter fail
FieldPasses(metadata, field, condition) ==
  LET fieldValue == getNestedValue(metadata, field)
  IN IF isFilterCondition(condition)
     THEN evaluateCondition(fieldValue, condition)
     ELSE StrictEq(fieldValue, condition)

\* an $or that rejects whatever has no match
OrFailsWhenEmpty(anyMatch, orValue) == anyMatch = "false"

\* the test after the $or loop: !anyMatch && filter.$or.length > 0
OrFails(anyMatch, orValue) == anyMatch = "false" /\ Len(Elements(orValue)) > 0

\* evaluateFilter gives "true" or "false", or "TypeError" when it throws:
\* reading $and of a null filter, or iterating a $and / $or value that is
\* not iterable
RECURSIVE evaluateFilter(_, _)

\* the $and loop: the first sub-filter that is not true decides
RECURSIVE AndLoop(_, _)
AndLoop(metadata, subFilters) ==
  IF subFilters = <<>> THEN "true"
  ELSE LET r == evaluateFilter(metadata, Head(subFilters))
       IN IF r = "true" THEN AndLoop(metadata, Tail(subFilters)) ELSE r

\* the $or loop: anyMatch, the first sub-filter that is not false decides
RECURSIVE OrLoop(_, _)
OrLoop(metadata, subFilters) ==
  IF subFilters = <<>> THEN "false"
  ELSE LET r == evaluateFilter(metadata, Head(subFilters))
       IN IF r = "false" THEN OrLoop(metadata, Tail(subFilters)) ELSE r

evaluateFilter(metadata, filter) ==
  IF filter.t \in {"null", "undefined"} THEN "TypeError"
  ELSE
    LET andValue == Prop(filter, AndKey)
        andPart == IF ~Truthy(andValue) THEN "true"
                   ELSE IF ~Iterable(andValue) THEN "TypeError"
                   ELSE AndLoop(metadata, Elements(andValue))
        orValue == Prop(filter, OrKey)
        anyMatch == OrLoop(metadata, Elements(orValue))
        orPart == IF ~Truthy(orValue) THEN "true"
                  ELSE IF ~Iterable(orValue) THEN "TypeError"
                  ELSE IF anyMatch = "TypeError" THEN "TypeError"
                  ELSE IF OrFails(anyMatch, orValue) THEN "false"
                  ELSE "true"
    IN IF andPart # "true" THEN andPart
       ELSE IF orPart # "true" THEN orPart
       ELSE IF \A e \in Entries(filter) :
                  \/ e[1] \in {AndKey, OrKey}
                  \/ FieldPasses(metadata, e[1], e[2])
       THEN "true"
       ELSE "false"

\* ------------------------------------------------------------------------
\* Text utilities (TextUtils.ts)
\* ------------------------------------------------------------------------

DEFAULT_OPTIONS ==
  [lowercase |-> TRUE, removePunctuation |-> TRUE,
   removeNumbers |-> FALSE, minTokenLength |-> 1]

\* processed.split(/\s+/).filter(t => t.length > 0): the maximal runs of
\* characters that are not white space
RECURSIVE SplitWhitespace(_)
SplitWhitespace(s) ==
  IF s = <<>> THEN <<>>
  ELSE IF IsSpace(s[1]) THEN SplitWhitespace(Tail(s))
  ELSE LET stop == IF \E i \in DOMAIN s : IsSpace(s[i])
                   THEN CHOOSE i \in DOMAIN s :
                          IsSpace(s[i]) /\ \A h \in 1..(i - 1) : ~IsSpace(s[h])
                   ELSE Len(s) + 1
       IN <<SubSeq(s, 1, stop - 1)>> \o SplitWhitespace(SubSeq(s, stop, Len(s)))

\* the elements of a sequence that satisfy keep, in order
SelectIndices(s, keep) ==
  LET idx == {i \in DOMAIN s : keep[i]}
  IN [p \in 1..Cardinality(idx) |->
        s[CHOOSE i \in idx : Cardinality({j \in idx : j <= i}) = p]]

\* tokenize(text, options) on a string; opts is DEFAULT_OPTIONS overridden
\* by the given options
tokenize(text, opts) ==
  LET LongEnough(tokens) ==
        IF opts.minTokenLength > 1
        THEN SelectIndices(tokens,
               [i \in DOMAIN tokens |-> Len(tokens[i]) >= opts.minTokenLength])
        ELSE tokens
      NoNumbers(tokens) ==
        LongEnough(IF opts.removeNumbers
                   THEN SelectIndices(tokens,
                          [i \in DOMAIN tokens |->
                             \E j \in DOMAIN tokens[i] : ~IsDigit(tokens[i][j])])
                   ELSE tokens)
      Cleaned(lowered) ==
        NoNumbers(SplitWhitespace(
          IF opts.removePunctuation
          THEN [i \in DOMAIN lowered |->
                  IF IsLetter(lowered[i]) \/ IsDigit(lowered[i])
                     \/ IsSpace(lowered[i])
                  THEN lowered[i] ELSE " "]
          ELSE lowered))
  IN IF Len(text) = 0 THEN <<>>
     ELSE Cleaned(IF opts.lowercase THEN toLowerCase(text) ELSE text)

\* getTermFrequencies: term -> number of occurrences among the tokens
getTermFrequencies(tokens) ==
  [term \in Range(tokens) |->
     Cardinality({i \in DOMAIN tokens : tokens[i] = term})]

\* the loop of extractTextFromMetadata: the text parts of the fields, in
\* field order
RECURSIVE TextParts(_, _)
TextParts(metadata, textFields) ==
  IF textFields = <<>> THEN <<>>
  ELSE LET value == WalkPath(metadata, split(Head(textFields), "."))
           parts == IF value.t = "string" THEN <<value.v>>
                    ELSE IF value.t = "array"
                    THEN LET strings == SelectIndices(value.v,
                               [i \in DOMAIN value.v |-> value.v[i].t = "string"])
                         IN [i \in DOMAIN strings |-> strings[i].v]
                    ELSE <<>>
       IN parts \o TextParts(metadata, Tail(textFields))

extractTextFromMetadata(metadata, textFields) ==
  IF ~Truthy(metadata) THEN <<>>
  ELSE join(TextParts(metadata, textFields), <<" ">>)

\* ------------------------------------------------------------------------
\* Numbers that are not integers
\* ------------------------------------------------------------------------

\* the fraction num / den, den > 0
Rat(num, den) == [num |-> num, den |-> den]

\* scale of the fixed-point values that stand for BM25 scores
Scale == 10 ^ 4

\* the series 2 * (z + z^3/3 + z^5/5 + ...) of ln((1 + z)/(1 - z)), from
\* the term of exponent n on, in fixed point; power is z^n
RECURSIVE LnSeries(_, _, _)
LnSeries(power, zSquared, n) ==
  IF power = 0 THEN 0
  ELSE (2 * power) \div n + LnSeries((power * zSquared) \div Scale, zSquared, n + 2)

\* Math.log(p / q) for p >= q > 0, in fixed point
Ln(p, q) ==
  LET z == ((p - q) * Scale) \div (p + q)
  IN LnSeries(z, (z * z) \div Scale, 1)

\* ------------------------------------------------------------------------
\* BM25 index (BM25Index.ts)
\* An index is a record of the fields of the class.  The Map documents is
\* the sequence of its entries in insertion order; the Maps
\* termFrequencies and documentFrequencies are functions on their keys.
\* ------------------------------------------------------------------------

DefaultK1 == Rat(6, 5)

DefaultB == Rat(3, 4)

\* new BM25Index({textFields, k1, b})
NewBM25Index(textFields, k1, b) ==
  [t |-> "BM25Index",
   k1 |-> IF k1.t = "undefined" THEN DefaultK1 ELSE k1.v,
   b |-> IF b.t = "undefined" THEN DefaultB ELSE b.v,
   textFields |-> textFields,
   tokenizerOptions |-> DEFAULT_OPTIONS,
   documents |-> <<>>,
   documentFrequencies |-> [term \in {} |-> 0],
   totalDocLength |-> 0]

\* documents.has(id)
HasDocument(index, id) == \E i \in DOMAIN index.documents : index.documents[i].id = id

\* documents.get(id), for an id the index has
GetDocument(index, id) ==
  index.documents[CHOOSE i \in DOMAIN index.documents : index.documents[i].id = id]

\* documentFrequencies.get(term) || 0
DF(index, term) ==
  IF term \in DOMAIN index.documentFrequencies
  THEN index.documentFrequencies[term] ELSE 0

\* removeDocument that leaves a term whose count falls to zero in
\* documentFrequencies
removeDocumentKeepsTerms(index, id) ==
  LET Removed(doc) ==
        [index EXCEPT
           !.documentFrequencies =
              [term \in DOMAIN index.documentFrequencies |->
                 IF term \in DOMAIN doc.termFrequencies
                 THEN DF(index, term) - 1 ELSE DF(index, term)],
           !.totalDocLength = index.totalDocLength - doc.length,
           !.documents = SelectIndices(index.documents,
                           [i \in DOMAIN index.documents |->
                              index.documents[i].id # id])]
  IN IF ~HasDocument(index, id) THEN index ELSE Removed(GetDocument(index, id))

\* the index after removeDocument(id)
removeDocument(index, id) ==
  LET Removed(doc) ==
        [index EXCEPT
           !.documentFrequencies =
              [term \in {t \in DOMAIN index.documentFrequencies :
                           ~(t \in DOMAIN doc.termFrequencies /\ DF(index, t) <= 1)} |->
                 IF term \in DOMAIN doc.termFrequencies
                 THEN DF(index, term) - 1 ELSE DF(index, term)],
           !.totalDocLength = index.totalDocLength - doc.length,
           !.documents = SelectIndices(index.documents,
                           [i \in DOMAIN index.documents |->
                              index.documents[i].id # id])]
  IN IF ~HasDocument(index, id) THEN index ELSE Removed(GetDocument(index, id))

\* the return value of removeDocument(id)
removeDocumentResult(index, id) == HasDocument(index, id)

\* addDocument that leaves the document the id already has in the index
addDocumentBesideOld(index, id, metadata) ==
  LET Added(base, tokens) ==
        [base EXCEPT
           !.documentFrequencies =
              [term \in DOMAIN base.documentFrequencies \cup Range(tokens) |->
                 IF term \in Range(tokens) THEN DF(base, term) + 1
                 ELSE DF(base, term)],
           !.documents = Append(base.documents,
                           [id |-> id, length |-> Len(tokens),
                            termFrequencies |-> getTermFrequencies(tokens),
                            metadata |-> IF Truthy(metadata) THEN metadata ELSE Undef]),
           !.totalDocLength = base.totalDocLength + Len(tokens)]
  IN Added(index, tokenize(extractTextFromMetadata(metadata, index.textFields),
                           index.tokenizerOptions))

\* the index after addDocument(id, metadata)
addDocument(index, id, metadata) ==
  LET Added(base, tokens) ==
        [base EXCEPT
           !.documentFrequencies =
              [term \in DOMAIN base.documentFrequencies \cup Range(tokens) |->
                 IF term \in Range(tokens) THEN DF(base, term) + 1
                 ELSE DF(base, term)],
           !.documents = Append(base.documents,
                           [id |-> id, length |-> Len(tokens),
                            termFrequencies |-> getTermFrequencies(tokens),
                            metadata |-> IF Truthy(metadata) THEN metadata ELSE Undef]),
           !.totalDocLength = base.totalDocLength + Len(tokens)]
      Tokenized(base) ==
        Added(base, tokenize(extractTextFromMetadata(metadata, base.textFields),
                             base.tokenizerOptions))
  IN Tokenized(IF HasDocument(index, id) THEN removeDocument(index, id) ELSE index)

\* the index after updateDocument(id, metadata)
updateDocument(index, id, metadata) == addDocument(index, id, metadata)

\* the index after clear()
clearIndex(index) ==
  [index EXCEPT !.documents = <<>>,
                !.documentFrequencies = [term \in {} |-> 0],
                !.totalDocLength = 0]

\* calculateIDF(term): ln((N - n + 0.5) / (n + 0.5) + 1), that is
\* ln((2N + 2) / (2n + 1)), in fixed point
calculateIDF(index, term) ==
  LET n == DF(index, term)
      N == Len(index.documents)
  IN IF n = 0 THEN 0 ELSE Ln(2 * N + 2, 2 * n + 1)

\* one term of the sum of calculateScore, in fixed point.  With
\* k1 = kn/kd, b = bn/bd and avgdl = total/N,
\*   tf * (k1 + 1) / (tf + k1 * (1 - b + b * (length / avgdl)))
\*     = tf * (kn + kd) * bd * total
\*       / (tf * kd * bd * total + kn * ((bd - bn) * total + bn * length * N))
TermScore(index, doc, term) ==
  LET Weighted(tf, kn, kd, bn, bd, total) ==
        (calculateIDF(index, term) * (tf * (kn + kd) * bd * total))
        \div (tf * kd * bd * total
              + kn * ((bd - bn) * total
                      + bn * doc.length * Len(index.documents)))
  IN IF term \notin DOMAIN doc.termFrequencies THEN 0
     ELSE Weighted(doc.termFrequencies[term], index.k1.num, index.k1.den,
                   index.b.num, index.b.den, index.totalDocLength)

RECURSIVE SumScores(_, _, _)
SumScores(index, doc, queryTerms) ==
  IF queryTerms = <<>> THEN 0
  ELSE TermScore(index, doc, Head(queryTerms))
       + SumScores(index, doc, Tail(queryTerms))

\* calculateScore(docId, queryTerms) for a document of the index; avgdl is 0
\* exactly when totalDocLength is
calculateScore(index, doc, queryTerms) ==
  IF index.totalDocLength = 0 THEN 0 ELSE SumScores(index, doc, queryTerms)

\* Array.prototype.sort is stable: the elements in the order of their keys,
\* elements of equal key in their original order
StableSortByKey(s, key) ==
  LET pos(i) == Cardinality({j \in DOMAIN s : key[j] < key[i]})
                + Cardinality({j \in DOMAIN s : key[j] = key[i] /\ j <= i})
  IN [p \in DOMAIN s |-> s[CHOOSE i \in DOMAIN s : pos(i) = p]]

\* s.slice(0, k): the first k elements, and for a negative k all but the
\* last -k
Take(s, k) ==
  SubSeq(s, 1, IF k < 0 THEN (IF Len(s) + k > 0 THEN Len(s) + k ELSE 0)
               ELSE IF k < Len(s) THEN k ELSE Len(s))

\* query.trim() is empty
IsBlank(query) == \A i \in DOMAIN query : IsSpace(query[i])

\* search that also returns the documents of score 0
indexSearchKeepsZero(index, query, k) ==
  LET Sorted(scores) ==
        Take(StableSortByKey(scores, [i \in DOMAIN scores |-> 0 - scores[i].score]), k)
      Scored(queryTerms) ==
        IF Len(queryTerms) = 0 THEN <<>>
        ELSE Sorted([i \in DOMAIN index.documents |->
                       [id |-> index.documents[i].id,
                        score |-> calculateScore(index, index.documents[i], queryTerms),
                        metadata |-> index.documents[i].metadata]])
  IN IF Len(index.documents) = 0 \/ IsBlank(query) THEN <<>>
     ELSE Scored(tokenize(query, index.tokenizerOptions))

\* BM25Index.search(query, k): <<id, score, metadata>> records
indexSearch(index, query, k) ==
  LET Sorted(scores) ==
        Take(StableSortByKey(scores, [i \in DOMAIN scores |-> 0 - scores[i].score]), k)
      Positive(all) ==
        Sorted(SelectIndices(all, [i \in DOMAIN all |-> all[i].score > 0]))
      Scored(queryTerms) ==
        IF Len(queryTerms) = 0 THEN <<>>
        ELSE Positive([i \in DOMAIN index.documents |->
                         [id |-> index.documents[i].id,
                          score |-> calculateScore(index, index.documents[i], queryTerms),
                          metadata |-> index.documents[i].metadata]])
  IN IF Len(index.documents) = 0 \/ IsBlank(query) THEN <<>>
     ELSE Scored(tokenize(query, index.tokenizerOptions))

\* ------------------------------------------------------------------------
\* Distances (VectorDB.ts)
\* Vector components are integers.  A distance is the real number
\* off + sgn * sqrt(num / den), kept as the record of off, sgn, num and den
\* (sgn in {-1, 0, 1}, num >= 0, den > 0, sgn = 0 exactly when num = 0), so
\* that distances are compared exactly.
\* ------------------------------------------------------------------------

Real(off, sgn, num, den) ==
  [off |-> off, sgn |-> IF num = 0 THEN 0 ELSE sgn, num |-> num, den |-> den]

\* the integer n
IntReal(n) == Real(0, Sign(n), n * n, 1)

\* sign of x - y for two reals of equal off
CompareReal(x, y) ==
  IF x.sgn # y.sgn THEN Sign(x.sgn - y.sgn)
  ELSE x.sgn * Sign(x.num * y.den - y.num * x.den)

\* sign of x - r for a real x and a fraction r
CompareRealRat(x, r) ==
  LET p == r.num - x.off * r.den
  IN CompareReal(Real(0, x.sgn, x.num, x.den),
                 Real(0, Sign(p), p * p, r.den * r.den))

RECURSIVE DotProduct(_, _)
DotProduct(a, b) ==
  IF a = <<>> THEN 0 ELSE a[1] * b[1] + DotProduct(Tail(a), Tail(b))

\* computeNorm(vector): sqrt of the sum of squares
computeNorm(vector) == Real(0, 1, DotProduct(vector, vector), 1)

\* cosineDistance(a, b, normA, normB); a norm that is not given is computed
cosineDistance(a, b, normA, normB) ==
  LET dot == DotProduct(a, b)
      nA == IF normA.t = "undefined" THEN computeNorm(a) ELSE normA.v
      nB == IF normB.t = "undefined" THEN computeNorm(b) ELSE normB.v
      \* denom squared is denomNum / denomDen
      denomNum == nA.num * nB.num
      denomDen == nA.den * nB.den
      \* (dot / denom) squared, clamped to 1
      simNum == IF dot * dot * denomDen > denomNum
                THEN denomNum ELSE dot * dot * denomDen
  IN IF denomNum = 0 THEN Real(1, 0, 0, 1)
     ELSE Real(1, 0 - Sign(dot), simNum, denomNum)

RECURSIVE SumSquaredDiff(_, _)
SumSquaredDiff(a, b) ==
  IF a = <<>> THEN 0
  ELSE (a[1] - b[1]) * (a[1] - b[1]) + SumSquaredDiff(Tail(a), Tail(b))

euclideanDistance(a, b) == Real(0, 1, SumSquaredDiff(a, b), 1)

dotProductDistance(a, b) == IntReal(0 - DotProduct(a, b))

\* calculateDistance for the store's metric
calculateDistance(metric, a, b, normA, normB) ==
  CASE metric = "cosine" -> cosineDistance(a, b, normA, normB)
    [] metric = "euclidean" -> euclideanDistance(a, b)
    [] metric = "dot" -> dotProductDistance(a, b)
    [] OTHER -> cosineDistance(a, b, normA, normB)

\* The similarity search derives from a distance d: 1 - d for cosine, -d
\* for dot, 1 / (1 + d) for euclidean.  The first two are reals; the third
\* is kept as the distance it is the inverse of.
similarityOf(metric, d) ==
  IF metric = "cosine" THEN [inverse |-> FALSE, x |-> Real(0, 0 - d.sgn, d.num, d.den)]
  ELSE IF metric = "dot" THEN [inverse |-> FALSE, x |-> Real(0, 0 - d.sgn, d.num, d.den)]
  ELSE [inverse |-> TRUE, x |-> d]

\* similarity < minSimilarity, for a fraction minSimilarity.  With d >= 0,
\* 1 / (1 + d) < p / q exactly when p > 0 and d > (q - p) / p.
SimilarityBelow(similarity, minSimilarity) ==
  IF ~similarity.inverse
  THEN CompareRealRat(similarity.x, minSimilarity) < 0
  ELSE /\ minSimilarity.num > 0
       /\ CompareRealRat(similarity.x,
            Rat(minSimilarity.den - minSimilarity.num, minSimilarity.num)) > 0

\* ------------------------------------------------------------------------
\* VectorDB (VectorDB.ts)
\* A store is the record of the fields of the class:
\*   dimensions, distance, indexType   the readonly configuration
\*   vectors          the Map of stored vectors, as the sequence of its
\*                    entries in insertion order
\*   bm25Index        Null or a BM25 index
\*   bm25TextFields   sequence of field names
\* A method is the operator giving [db, error, value]: the store after the
\* call, the error thrown ("none" when the call returns) and the value
\* returned.
\* ------------------------------------------------------------------------

\* an options value that is not given
NotGiven == "undefined"

\* new VectorDB(options)
NewVectorDB(options) ==
  [dimensions |-> options.dimensions,
   distance |-> IF options.distance = NotGiven THEN "cosine" ELSE options.distance,
   indexType |-> IF options.indexType = NotGiven THEN "flat" ELSE options.indexType,
   vectors |-> <<>>,
   bm25Index |-> Null,
   bm25TextFields |-> <<>>]

Returns(db, value) == [db |-> db, error |-> "none", value |-> value]

Throws(db, error) == [db |-> db, error |-> error, value |-> Undef]

\* vectors.has(id)
Has(db, id) == \E i \in DOMAIN db.vectors : db.vectors[i].id = id

\* vectors.get(id), for an id the store has
Stored(db, id) == db.vectors[CHOOSE i \in DOMAIN db.vectors : db.vectors[i].id = id]

\* the record insert and upsert store
NewStored(db, id, vector, metadata) ==
  [id |-> id,
   vector |-> vector,
   metadata |-> IF Truthy(metadata) THEN metadata ELSE Null,
   norm |-> IF db.distance = "cosine" THEN Num(computeNorm(vector)) ELSE Undef]

\* vectors.set(id, stored): an existing key keeps its place, a new key goes
\* to the end
MapSet(vectors, stored) ==
  IF \E i \in DOMAIN vectors : vectors[i].id = stored.id
  THEN [i \in DOMAIN vectors |->
          IF vectors[i].id = stored.id THEN stored ELSE vectors[i]]
  ELSE Append(vectors, stored)

\* insert without the check of the length of the vector
insertUnchecked(db, id, vector, metadata) ==
  IF Has(db, id) THEN Throws(db, "DuplicateId")
  ELSE Returns(
         [db EXCEPT
            !.vectors = MapSet(@, NewStored(db, id, vector, metadata)),
            !.bm25Index =
               IF @.t # "null"
               THEN addDocument(@, id, IF Truthy(metadata) THEN metadata ELSE Null)
               ELSE @],
         Undef)

\* insert without the check that the id is new: the record is overwritten
insertOverwrites(db, id, vector, metadata) ==
  IF Len(vector) # db.dimensions THEN Throws(db, "DimensionMismatch")
  ELSE Returns(
         [db EXCEPT
            !.vectors = MapSet(@, NewStored(db, id, vector, metadata)),
            !.bm25Index =
               IF @.t # "null"
               THEN addDocument(@, id, IF Truthy(metadata) THEN metadata ELSE Null)
               ELSE @],
         Undef)

insert(db, id, vector, metadata) ==
  IF Len(vector) # db.dimensions THEN Throws(db, "DimensionMismatch")
  ELSE IF Has(db, id) THEN Throws(db, "DuplicateId")
  ELSE Returns(
         [db EXCEPT
            !.vectors = MapSet(@, NewStored(db, id, vector, metadata)),
            !.bm25Index =
               IF @.t # "null"
               THEN addDocument(@, id, IF Truthy(metadata) THEN metadata ELSE Null)
               ELSE @],
         Undef)

\* upsert that updates the BM25 index before it checks the length of the
\* vector
upsertIndexFirst(db, id, vector, metadata) ==
  LET indexed ==
        [db EXCEPT
           !.bm25Index =
              IF @.t # "null"
              THEN updateDocument(@, id, IF Truthy(metadata) THEN metadata ELSE Null)
              ELSE @]
  IN IF Len(vector) # db.dimensions THEN Throws(indexed, "DimensionMismatch")
     ELSE Returns(
            [indexed EXCEPT
               !.vectors = MapSet(@, NewStored(db, id, vector, metadata))],
            Undef)

upsert(db, id, vector, metadata) ==
  IF Len(vector) # db.dimensions THEN Throws(db, "DimensionMismatch")
  ELSE Returns(
         [db EXCEPT
            !.vectors = MapSet(@, NewStored(db, id, vector, metadata)),
            !.bm25Index =
               IF @.t # "null"
               THEN updateDocument(@, id, IF Truthy(metadata) THEN metadata ELSE Null)
               ELSE @],
         Undef)

\* one pass of the scan of search: the result pushed for a stored vector
ScanResult(db, query, queryNorm, stored) ==
  LET d == calculateDistance(db.distance, query, stored.vector, queryNorm, stored.norm)
  IN [id |-> stored.id,
      distance |-> d,
      similarity |-> similarityOf(db.distance, d),
      metadata |-> IF Truthy(stored.metadata) THEN stored.metadata ELSE Undef]

\* rank of a distance among the distances of a sequence of results: the
\* number of results strictly nearer
DistanceRank(results, i) ==
  Cardinality({j \in DOMAIN results :
                 CompareReal(results[j].distance, results[i].distance) < 0})

\* search that returns the first k results of the scan as they are, in the
\* order of insertion, without sorting them by distance
searchUnsorted(db, query, k, filter, minSimilarity) ==
  LET minSim == IF minSimilarity.t \in {"undefined", "null"}
                THEN Rat(0, 1) ELSE minSimilarity.v
      queryNorm == IF db.distance = "cosine" THEN Num(computeNorm(query)) ELSE Undef
      Verdict(stored) ==
        IF Truthy(filter) THEN evaluateFilter(stored.metadata, filter) ELSE "true"
      Sliced(results) ==
        Take(results, IF k < Len(results) THEN k ELSE Len(results))
      Kept(scanned) ==
        Sliced(SelectIndices(scanned,
                 [i \in DOMAIN scanned |->
                    /\ Verdict(db.vectors[i]) = "true"
                    /\ ~SimilarityBelow(scanned[i].similarity, minSim)]))
  IN IF Len(query) # db.dimensions THEN Throws(db, "DimensionMismatch")
     ELSE IF Len(db.vectors) = 0 THEN Returns(db, <<>>)
     ELSE IF \E i \in DOMAIN db.vectors : Verdict(db.vectors[i]) = "TypeError"
     THEN Throws(db, "TypeError")
     ELSE Returns(db, Kept([i \in DOMAIN db.vectors |->
                              ScanResult(db, query, queryNorm, db.vectors[i])]))

\* search(query, k, {filter, minSimilarity}); filter and minSimilarity are
\* Undef when not given
search(db, query, k, filter, minSimilarity) ==
  LET minSim == IF minSimilarity.t \in {"undefined", "null"}
                THEN Rat(0, 1) ELSE minSimilarity.v
      queryNorm == IF db.distance = "cosine" THEN Num(computeNorm(query)) ELSE Undef
      Verdict(stored) ==
        IF Truthy(filter) THEN evaluateFilter(stored.metadata, filter) ELSE "true"
      Sliced(sorted) ==
        Take(sorted, IF k < Len(sorted) THEN k ELSE Len(sorted))
      Sorted(results) ==
        Sliced(StableSortByKey(results,
                 [i \in DOMAIN results |-> DistanceRank(results, i)]))
      Kept(scanned) ==
        Sorted(SelectIndices(scanned,
                 [i \in DOMAIN scanned |->
                    /\ Verdict(db.vectors[i]) = "true"
                    /\ ~SimilarityBelow(scanned[i].similarity, minSim)]))
  IN IF Len(query) # db.dimensions THEN Throws(db, "DimensionMismatch")
     ELSE IF Len(db.vectors) = 0 THEN Returns(db, <<>>)
     ELSE IF \E i \in DOMAIN db.vectors : Verdict(db.vectors[i]) = "TypeError"
     THEN Throws(db, "TypeError")
     ELSE Returns(db, Kept([i \in DOMAIN db.vectors |->
                              ScanResult(db, query, queryNorm, db.vectors[i])]))

\* get(id)
get(db, id) ==
  IF ~Has(db, id) THEN Returns(db, Null)
  ELSE Returns(db, [vector |-> Stored(db, id).vector,
                    metadata |-> Stored(db, id).metadata])

\* delete that leaves the document of the record in the BM25 index
deleteKeepsDocument(db, id) ==
  Returns(
    [db EXCEPT !.vectors = SelectIndices(@, [i \in DOMAIN @ |-> @[i].id # id])],
    Has(db, id))

\* delete(id)
delete(db, id) ==
  LET deleted == Has(db, id)
  IN Returns(
       [db EXCEPT
          !.vectors = SelectIndices(@, [i \in DOMAIN @ |-> @[i].id # id]),
          !.bm25Index = IF deleted /\ @.t # "null" THEN removeDocument(@, id) ELSE @],
       deleted)

\* contains(id)
contains(db, id) == Returns(db, Has(db, id))

\* clear that leaves the BM25 index as it is
clearKeepsIndex(db) == Returns([db EXCEPT !.vectors = <<>>], Undef)

\* clear()
clear(db) ==
  Returns(
    [db EXCEPT !.vectors = <<>>,
               !.bm25Index = IF @.t # "null" THEN clearIndex(@) ELSE @],
    Undef)

\* getIds()
getIds(db) == Returns(db, [i \in DOMAIN db.vectors |-> db.vectors[i].id])

\* the loop of configureBM25 that indexes the stored vectors
RECURSIVE IndexAll(_, _)
IndexAll(index, vectors) ==
  IF vectors = <<>> THEN index
  ELSE IndexAll(addDocument(index, Head(vectors).id, Head(vectors).metadata),
                Tail(vectors))

\* configureBM25({textFields, k1, b}).  JSON.stringify of two lists of
\* strings is equal exactly when the lists are.
configureBM25(db, textFields, k1, b) ==
  IF db.bm25Index.t # "null" /\ db.bm25TextFields = textFields
  THEN Returns(db, Undef)
  ELSE Returns(
         [db EXCEPT
            !.bm25Index = IndexAll(NewBM25Index(textFields, k1, b), db.vectors),
            !.bm25TextFields = textFields],
         Undef)

\* ensureBM25Index that keeps an index it finds, whatever its text fields
ensureBM25IndexOnce(db, textFields, k1, b) ==
  IF db.bm25Index.t = "null"
  THEN configureBM25(db, textFields, k1, b).db
  ELSE db

\* ensureBM25Index(textFields, k1, b)
ensureBM25Index(db, textFields, k1, b) ==
  IF db.bm25Index.t = "null" \/ db.bm25TextFields # textFields
  THEN configureBM25(db, textFields, k1, b).db
  ELSE db

\* hasBM25Index()
hasBM25Index(db) == db.bm25Index.t # "null"

\* keywordSearch that filters the whole ranking instead of its first 2k
\* entries
keywordSearchFiltersAll(db, query, k, textFieldsOption, filter, k1, b) ==
  LET textFields == IF textFieldsOption.t = "undefined"
                    THEN db.bm25TextFields ELSE textFieldsOption.v
      Verdict(ready, result) ==
        IF ~Has(ready, result.id) THEN "false"
        ELSE evaluateFilter(Stored(ready, result.id).metadata, filter)
      Filtered(ready, found) ==
        IF ~Truthy(filter) THEN Returns(ready, Take(found, k))
        ELSE IF \E i \in DOMAIN found : Verdict(ready, found[i]) = "TypeError"
        THEN Throws(ready, "TypeError")
        ELSE Returns(ready,
               Take(SelectIndices(found,
                      [i \in DOMAIN found |-> Verdict(ready, found[i]) = "true"]),
                    k))
      Searched(ready) ==
        Filtered(ready, indexSearch(ready.bm25Index, query,
                                    Len(ready.bm25Index.documents)))
  IN IF Len(textFields) = 0 THEN Throws(db, "MissingInput")
     ELSE Searched(ensureBM25Index(db, textFields, k1, b))

\* keywordSearch(query, k, {textFields, filter, k1, b}); the options are
\* Undef when not given, textFields is a list of names when given
keywordSearch(db, query, k, textFieldsOption, filter, k1, b) ==
  LET textFields == IF textFieldsOption.t = "undefined"
                    THEN db.bm25TextFields ELSE textFieldsOption.v
      Verdict(ready, result) ==
        IF ~Has(ready, result.id) THEN "false"
        ELSE evaluateFilter(Stored(ready, result.id).metadata, filter)
      Filtered(ready, found) ==
        IF ~Truthy(filter) THEN Returns(ready, Take(found, k))
        ELSE IF \E i \in DOMAIN found : Verdict(ready, found[i]) = "TypeError"
        THEN Throws(ready, "TypeError")
        ELSE Returns(ready,
               Take(SelectIndices(found,
                      [i \in DOMAIN found |-> Verdict(ready, found[i]) = "true"]),
                    k))
      Searched(ready) == Filtered(ready, indexSearch(ready.bm25Index, query, k * 2))
  IN IF Len(textFields) = 0 THEN Throws(db, "MissingInput")
     ELSE Searched(ensureBM25Index(db, textFields, k1, b))

\* ------------------------------------------------------------------------
\* Fusion of two ranked lists (HybridSearch.ts)
\* ------------------------------------------------------------------------

\* sign of x - y for two fractions
CompareRat(x, y) == Sign(x.num * y.den - y.num * x.den)

AddRat(x, y) == Rat(x.num * y.den + y.num * x.den, x.den * y.den)

\* position (from 1) of the first result of the list with this id, 0 when
\* there is none: findIndex(r => r.id === id) + 1
RankOf(results, id) ==
  IF \E i \in DOMAIN results : results[i].id = id
  THEN CHOOSE i \in DOMAIN results :
         results[i].id = id /\ \A h \in 1..(i - 1) : results[h].id # id
  ELSE 0

\* position of the last result with this id: the value left in a Map filled
\* by forEach((result, index) => map.set(result.id, index + 1))
LastRankOf(results, id) ==
  IF \E i \in DOMAIN results : results[i].id = id
  THEN CHOOSE i \in DOMAIN results :
         results[i].id = id /\ \A h \in (i + 1)..Len(results) : results[h].id # id
  ELSE 0

\* the ids of a list without repetition, in order of first occurrence
Keys(results) ==
  LET ids == [i \in DOMAIN results |-> results[i].id]
  IN SelectIndices(ids, [i \in DOMAIN ids |-> \A h \in 1..(i - 1) : ids[h] # ids[i]])

\* new Set([...vectorKeys, ...keywordKeys]) in iteration order
AllIds(vectorResults, keywordResults) ==
  LET vectorKeys == Keys(vectorResults)
      keywordKeys == Keys(keywordResults)
  IN vectorKeys \o SelectIndices(keywordKeys,
                     [i \in DOMAIN keywordKeys |->
                        RankOf(vectorResults, keywordKeys[i]) = 0])

\* vectorResult?.metadata || keywordResult?.metadata
MergedMetadata(vectorResults, keywordResults, id) ==
  LET v == RankOf(vectorResults, id)
      kw == RankOf(keywordResults, id)
  IN IF v > 0 /\ Truthy(vectorResults[v].metadata) THEN vectorResults[v].metadata
     ELSE IF kw > 0 THEN keywordResults[kw].metadata
     ELSE Undef

\* the result pushed for an id, but for its score
FusedEntry(vectorResults, keywordResults, id, vectorRank, keywordRank) ==
  [id |-> id,
   vectorRank |-> IF vectorRank > 0 THEN Num(vectorRank) ELSE Undef,
   keywordRank |-> IF keywordRank > 0 THEN Num(keywordRank) ELSE Undef,
   vectorSimilarity |-> IF RankOf(vectorResults, id) > 0
                        THEN vectorResults[RankOf(vectorResults, id)].similarity
                        ELSE Undef,
   keywordScore |-> IF RankOf(keywordResults, id) > 0
                    THEN Num(keywordResults[RankOf(keywordResults, id)].score)
                    ELSE Undef,
   metadata |-> MergedMetadata(vectorResults, keywordResults, id)]

\* reciprocalRankFusion with ranks that start at 0
reciprocalRankFusionFromZero(vectorResults, keywordResults, k, rrfConstant) ==
  LET Part(rank) == IF rank > 0 THEN Rat(1, rrfConstant + rank - 1) ELSE Rat(0, 1)
      Entry(id, vectorRank, keywordRank) ==
        [score |-> AddRat(Part(vectorRank), Part(keywordRank))] @@
        FusedEntry(vectorResults, keywordResults, id, vectorRank, keywordRank)
      Sorted(scores) ==
        Take(StableSortByKey(scores,
               [i \in DOMAIN scores |->
                  Cardinality({j \in DOMAIN scores :
                     CompareRat(scores[j].score, scores[i].score) > 0})]),
             k)
      Scored(allIds) ==
        Sorted([i \in DOMAIN allIds |->
                  Entry(allIds[i], LastRankOf(vectorResults, allIds[i]),
                        LastRankOf(keywordResults, allIds[i]))])
  IN Scored(AllIds(vectorResults, keywordResults))

\* reciprocalRankFusion(vectorResults, keywordResults, k, rrfConstant); a
\* score is a fraction
reciprocalRankFusion(vectorResults, keywordResults, k, rrfConstant) ==
  LET Part(rank) == IF rank > 0 THEN Rat(1, rrfConstant + rank) ELSE Rat(0, 1)
      Entry(id, vectorRank, keywordRank) ==
        [score |-> AddRat(Part(vectorRank), Part(keywordRank))] @@
        FusedEntry(vectorResults, keywordResults, id, vectorRank, keywordRank)
      Sorted(scores) ==
        Take(StableSortByKey(scores,
               [i \in DOMAIN scores |->
                  Cardinality({j \in DOMAIN scores :
                     CompareRat(scores[j].score, scores[i].score) > 0})]),
             k)
      Scored(allIds) ==
        Sorted([i \in DOMAIN allIds |->
                  Entry(allIds[i], LastRankOf(vectorResults, allIds[i]),
                        LastRankOf(keywordResults, allIds[i]))])
  IN Scored(AllIds(vectorResults, keywordResults))

\* largest r with r * r <= n, by Newton's iteration from x
RECURSIVE ISqrtFrom(_, _)
ISqrtFrom(n, x) ==
  LET y == (x + n \div x) \div 2
  IN IF y >= x THEN x ELSE ISqrtFrom(n, y)

ISqrt(n) == IF n = 0 THEN 0 ELSE ISqrtFrom(n, n)

\* a similarity in fixed point
FixedSimilarity(similarity) ==
  LET x == similarity.x
      root == x.off * Scale + x.sgn * ISqrt((x.num * Scale * Scale) \div x.den)
  IN IF similarity.inverse THEN (Scale * Scale) \div (Scale + root) ELSE root

Min(S) == CHOOSE x \in S : \A y \in S : x <= y

Max(S) == CHOOSE x \in S : \A y \in S : x >= y

\* normalizeScores(results)[id] for an id of the list, in fixed point
normalizeScores(results, id) ==
  LET scores == {results[i].score : i \in DOMAIN results}
      minScore == Min(scores)
      range == Max(scores) - minScore
      score == results[LastRankOf(results, id)].score
  IN IF range = 0 THEN Scale ELSE ((score - minScore) * Scale) \div range

\* weightedCombination(vectorResults, keywordResults, k, alpha); alpha is a
\* fraction, a score is in fixed point
weightedCombination(vectorResults, keywordResults, k, alpha) ==
  LET clamped == IF alpha.num < 0 THEN Rat(0, 1)
                 ELSE IF alpha.num > alpha.den THEN Rat(1, 1)
                 ELSE alpha
      Combined(vectorScore, keywordScore) ==
        (clamped.num * vectorScore
         + (clamped.den - clamped.num) * keywordScore) \div clamped.den
      Entry(id, vectorRank, keywordRank) ==
        [score |->
           Combined(IF LastRankOf(vectorResults, id) > 0
                    THEN FixedSimilarity(
                           vectorResults[LastRankOf(vectorResults, id)].similarity)
                    ELSE 0,
                    IF keywordRank > 0 THEN normalizeScores(keywordResults, id)
                    ELSE 0)] @@
        FusedEntry(vectorResults, keywordResults, id, vectorRank, keywordRank)
      Sorted(scores) ==
        Take(StableSortByKey(scores, [i \in DOMAIN scores |-> 0 - scores[i].score]), k)
      Scored(allIds) ==
        Sorted([i \in DOMAIN allIds |->
                  Entry(allIds[i], RankOf(vectorResults, allIds[i]),
                        RankOf(keywordResults, allIds[i]))])
  IN Scored(AllIds(vectorResults, keywordResults))

DefaultRrfConstant == 60

DefaultAlpha == Rat(1, 2)

\* hybridFusion(vectorResults, keywordResults, k, method, {alpha, rrfConstant})
hybridFusion(vectorResults, keywordResults, k, method, alpha, rrfConstant) ==
  IF method = "rrf"
  THEN reciprocalRankFusion(vectorResults, keywordResults, k,
         IF rrfConstant.t \in {"undefined", "null"}
         THEN DefaultRrfConstant ELSE rrfConstant.v)
  ELSE weightedCombination(vectorResults, keywordResults, k,
         IF alpha.t \in {"undefined", "null"} THEN DefaultAlpha ELSE alpha.v)

\* the text fields hybridSearch uses when none is given or configured:
\* ['content', 'text', 'title']
DefaultTextFields ==
  << <<"c", "o", "n", "t", "e", "n", "t">>,
     <<"t", "e", "x", "t">>,
     <<"t", "i", "t", "l", "e">> >>

\* the shape of a HybridSearchResult
HybridResult(id, score, vectorSimilarity, keywordScore, metadata) ==
  [id |-> id, score |-> score, vectorRank |-> Undef, keywordRank |-> Undef,
   vectorSimilarity |-> vectorSimilarity, keywordScore |-> keywordScore,
   metadata |-> metadata]

\* hybridSearch(options).  options has every field of HybridSearchOptions,
\* Undef when not given: mode and k, queryVector (an array of integers),
\* keywords (a string), textFields (an array of names), filter,
\* minSimilarity, alpha and rrfConstant (numbers), fusionMethod, bm25K1 and
\* bm25B.  The result has a further field, calls: the sub-searches run.
Traced(r, calls) ==
  [db |-> r.db, error |-> r.error, value |-> r.value, calls |-> calls]

\* the textFields of the destructured options without the default list
hybridTextFieldsNoDefault(db, options) ==
  IF options.textFields.t = "undefined" THEN Arr(db.bm25TextFields)
  ELSE options.textFields

\* the textFields of the destructured options: the default applies when the
\* option is undefined
hybridTextFields(db, options) ==
  IF options.textFields.t = "undefined"
  THEN Arr(IF Len(db.bm25TextFields) > 0 THEN db.bm25TextFields
           ELSE DefaultTextFields)
  ELSE options.textFields

\* the call this.search(queryVector, n, {filter, minSimilarity})
vectorCall(db, options, n) ==
  search(db, options.queryVector.v, n, options.filter, options.minSimilarity)

\* the keyword search of hybridSearch without the filter
keywordCallUnfiltered(db, options, n) ==
  keywordSearch(db, options.keywords.v, n, hybridTextFields(db, options),
                Undef, options.bm25K1, options.bm25B)

\* the call this.keywordSearch(keywords, n, {textFields, filter, k1, b})
keywordCall(db, options, n) ==
  keywordSearch(db, options.keywords.v, n, hybridTextFields(db, options),
                options.filter, options.bm25K1, options.bm25B)

\* mode === 'vector'
hybridSearchVector(db, options) ==
  LET Mapped(r) ==
        IF r.error # "none" THEN Traced(r, <<"search">>)
        ELSE Traced(Returns(r.db,
               [i \in DOMAIN r.value |->
                  HybridResult(r.value[i].id, r.value[i].similarity,
                               r.value[i].similarity, Undef,
                               r.value[i].metadata)]),
               <<"search">>)
  IN IF ~Truthy(options.queryVector) THEN Traced(Throws(db, "MissingInput"), <<>>)
     ELSE Mapped(vectorCall(db, options, options.k))

\* mode === 'keyword'
hybridSearchKeyword(db, options) ==
  LET Mapped(r) ==
        IF r.error # "none" THEN Traced(r, <<"keywordSearch">>)
        ELSE Traced(Returns(r.db,
               [i \in DOMAIN r.value |->
                  HybridResult(r.value[i].id, Num(r.value[i].score),
                               Undef, Num(r.value[i].score),
                               r.value[i].metadata)]),
               <<"keywordSearch">>)
  IN IF ~Truthy(options.keywords) THEN Traced(Throws(db, "MissingInput"), <<>>)
     ELSE Mapped(keywordCall(db, options, options.k))

\* hybrid mode, the inputs being present: both searches over fetchK
\* candidates, then the fusion
hybridSearchBoth(db, options) ==
  LET fetchK == IF options.k * 3 > 50 THEN options.k * 3 ELSE 50
      fusionMethod == IF options.fusionMethod = NotGiven THEN "rrf"
                      ELSE options.fusionMethod
      Fused(vectorResults, keywordResults) ==
        IF keywordResults.error # "none"
        THEN Traced(keywordResults, <<"search", "keywordSearch">>)
        ELSE Traced(Returns(keywordResults.db,
               hybridFusion(vectorResults.value, keywordResults.value, options.k,
                            fusionMethod, options.alpha, options.rrfConstant)),
               <<"search", "keywordSearch">>)
      Searched(vectorResults) ==
        IF vectorResults.error # "none" THEN Traced(vectorResults, <<"search">>)
        ELSE Fused(vectorResults, keywordCall(vectorResults.db, options, fetchK))
  IN Searched(vectorCall(db, options, fetchK))

\* hybrid mode that searches the vectors before it looks at the keywords
hybridSearchHybridSearchesFirst(db, options) ==
  IF ~Truthy(options.queryVector) THEN Traced(Throws(db, "MissingInput"), <<>>)
  ELSE IF ~Truthy(options.keywords)
  THEN Traced(Throws(vectorCall(db, options, options.k).db, "MissingInput"),
              <<"search">>)
  ELSE hybridSearchBoth(db, options)

\* hybrid mode
hybridSearchHybrid(db, options) ==
  IF ~Truthy(options.queryVector) THEN Traced(Throws(db, "MissingInput"), <<>>)
  ELSE IF ~Truthy(options.keywords) THEN Traced(Throws(db, "MissingInput"), <<>>)
  ELSE hybridSearchBoth(db, options)

hybridSearch(db, options) ==
  IF options.mode = "vector" THEN hybridSearchVector(db, options)
  ELSE IF options.mode = "keyword" THEN hybridSearchKeyword(db, options)
  ELSE hybridSearchHybrid(db, options)

\* ------------------------------------------------------------------------
\* Export and import (VectorDB.ts, BM25Index.ts)
\* ------------------------------------------------------------------------

ProtoKey == <<"_", "_", "p", "r", "o", "t", "o", "_", "_">>

\* the plain object filled by record[key] = value for every entry of a Map:
\* "__proto__" is the one key whose assignment of a number adds no property
ToRecord(map) == [key \in DOMAIN map \ {ProtoKey} |-> map[key]]

\* the Map filled from Object.entries(record)
ToMap(record) == [key \in DOMAIN record |-> record[key]]

\* get avgDocLength(): the fraction totalDocLength / documents.size
avgDocLength(index) ==
  IF Len(index.documents) = 0 THEN Rat(0, 1)
  ELSE Rat(index.totalDocLength, Len(index.documents))

\* BM25Index.serialize()
serialize(index) ==
  [t |-> "object",
   version |-> "1.0.0",
   k1 |-> index.k1,
   b |-> index.b,
   textFields |-> index.textFields,
   avgDocLength |-> avgDocLength(index),
   documentCount |-> Len(index.documents),
   documents |-> [i \in DOMAIN index.documents |->
                    [id |-> index.documents[i].id,
                     length |-> index.documents[i].length,
                     termFrequencies |->
                       ToRecord(index.documents[i].termFrequencies)]],
   documentFrequencies |-> ToRecord(index.documentFrequencies)]

\* the documents, by documents.set(id, ...) in the order of the list: a
\* repeated id keeps its first place and takes the last value
RECURSIVE RestoreDocuments(_, _)
RestoreDocuments(documents, list) ==
  IF list = <<>> THEN documents
  ELSE RestoreDocuments(
         MapSet(documents,
                [id |-> Head(list).id, length |-> Head(list).length,
                 termFrequencies |-> ToMap(Head(list).termFrequencies),
                 metadata |-> Undef]),
         Tail(list))

RECURSIVE SumLengths(_)
SumLengths(list) ==
  IF list = <<>> THEN 0 ELSE Head(list).length + SumLengths(Tail(list))

\* BM25Index.deserialize that restores no document frequencies
deserializeForgetsFrequencies(data) ==
  [NewBM25Index(data.textFields, Num(data.k1), Num(data.b)) EXCEPT
     !.documents = RestoreDocuments(<<>>, data.documents),
     !.totalDocLength = SumLengths(data.documents)]

\* BM25Index.deserialize(data)
deserialize(data) ==
  [NewBM25Index(data.textFields, Num(data.k1), Num(data.b)) EXCEPT
     !.documents = RestoreDocuments(<<>>, data.documents),
     !.totalDocLength = SumLengths(data.documents),
     !.documentFrequencies = ToMap(data.documentFrequencies)]

\* VectorDB.export(): bm25Index is Undef when the store has no index
export(db) ==
  [version |-> "2.0.0",
   dimensions |-> db.dimensions,
   distance |-> db.distance,
   indexType |-> db.indexType,
   vectors |-> db.vectors,
   bm25Index |-> IF db.bm25Index.t = "null" THEN Undef
                 ELSE serialize(db.bm25Index)]

\* the vectors, by vectors.set(stored.id, ...) in the order of the list
RECURSIVE LoadVectors(_, _)
LoadVectors(vectors, list) ==
  IF list = <<>> THEN vectors
  ELSE LoadVectors(
         MapSet(vectors,
                [id |-> Head(list).id, vector |-> Head(list).vector,
                 metadata |-> Head(list).metadata, norm |-> Head(list).norm]),
         Tail(list))

\* VectorDB.import(data)
import(data) ==
  LET Loaded(db) ==
        IF data.bm25Index.t = "undefined"
        THEN [db EXCEPT !.vectors = LoadVectors(<<>>, data.vectors)]
        ELSE [db EXCEPT !.vectors = LoadVectors(<<>>, data.vectors),
                        !.bm25Index = deserialize(data.bm25Index),
                        !.bm25TextFields = data.bm25Index.textFields]
  IN Loaded(NewVectorDB([dimensions |-> data.dimensions,
                         distance |-> data.distance,
                         indexType |-> data.indexType]))

\* ------------------------------------------------------------------------
\* The registry of named stores (VectorDB.ts).  The Map dbCache is the
\* sequence of its entries, name and store, in the order of insertion.
\* A function of the registry returns the registry it leaves, the error it
\* throws ("none" when it returns) and its value.
\* ------------------------------------------------------------------------

\* dbCache.has(name)
Registered(cache, name) == \E i \in DOMAIN cache : cache[i].name = name

\* dbCache.get(name), for a name the registry has
RegisteredDB(cache, name) ==
  cache[CHOOSE i \in DOMAIN cache : cache[i].name = name].db

\* dbCache.set(name, db): an existing key keeps its place, a new key goes to
\* the end
Register(cache, name, db) ==
  IF Registered(cache, name)
  THEN [i \in DOMAIN cache |->
          IF cache[i].name = name THEN [name |-> name, db |-> db] ELSE cache[i]]
  ELSE Append(cache, [name |-> name, db |-> db])

Done(cache, value) == [cache |-> cache, error |-> "none", value |-> value]

Failed(cache, error) == [cache |-> cache, error |-> error, value |-> Undef]

\* getDB(name)
getDB(cache, name) ==
  IF ~Registered(cache, name) THEN Failed(cache, "NotFound")
  ELSE Done(cache, RegisteredDB(cache, name))

\* createDB that registers the new store whether or not the name is taken
createDBOverwrites(cache, name, o) ==
  Done(Register(cache, name, NewVectorDB(o)), NewVectorDB(o))

\* createDB(name, options)
createDB(cache, name, o) ==
  IF Registered(cache, name) THEN Failed(cache, "AlreadyExists")
  ELSE Done(Register(cache, name, NewVectorDB(o)), NewVectorDB(o))

\* getOrCreateDB(name, options); options is Undef when not given
getOrCreateDB(cache, name, o) ==
  IF Registered(cache, name) THEN Done(cache, RegisteredDB(cache, name))
  ELSE IF "dimensions" \notin DOMAIN o THEN Failed(cache, "NotFound")
  ELSE createDB(cache, name, o)

\* importDB(name, data)
importDB(cache, name, data) ==
  Done(Register(cache, name, import(data)), import(data))

\* listDBs()
listDBs(cache) == Done(cache, [i \in DOMAIN cache |-> cache[i].name])

\* deleteDB(name)
deleteDB(cache, name) ==
  Done(SelectIndices(cache, [i \in DOMAIN cache |-> cache[i].name # name]),
       Registered(cache, name))

\* clearCache()
clearCache(cache) == Done(<<>>, Undef)

\* ------------------------------------------------------------------------
\* The store as a state machine: one store, one call at a time
\* ------------------------------------------------------------------------

VARIABLES
  options,         \* the options the store was constructed with
  dimensions,      \* this._dimensions
  distance,        \* this._distance
  indexType,       \* this._indexType
  vectors,         \* this.vectors
  bm25Index,       \* this.bm25Index
  bm25TextFields,  \* this.bm25TextFields
  ret,             \* the last call: its name, arguments, error and value
  heap,            \* the array objects of the caller and of the stored vectors
  dbCache          \* the registry of named stores: its entries in order

vars == <<options, dimensions, distance, indexType, vectors, bm25Index,
          bm25TextFields, ret, heap, dbCache>>

\* no array object yet: next is the address of the next object made,
\* caller the arrays the caller holds, vectorAt the address of the vector
\* of each stored record.  SpecAlias follows these
\* arrays; SpecSnapshot keeps in heap its own record of the stored-vector
\* objects; the other specifications leave heap as it is.
EmptyHeap == [next |-> 1, caller |-> <<>>, vectorAt |-> [id \in {} |-> 0]]

\* the fields of the store a call can change
store == <<dimensions, distance, indexType, vectors, bm25Index, bm25TextFields>>

\* the store the variables hold
Self ==
  [dimensions |-> dimensions, distance |-> distance, indexType |-> indexType,
   vectors |-> vectors, bm25Index |-> bm25Index, bm25TextFields |-> bm25TextFields]

\* the variables take the fields of db
Becomes(db) ==
  /\ dimensions' = db.dimensions
  /\ distance' = db.distance
  /\ indexType' = db.indexType
  /\ vectors' = db.vectors
  /\ bm25Index' = db.bm25Index
  /\ bm25TextFields' = db.bm25TextFields

\* the call op(args) ran with outcome r
Call(op, args, r) ==
  /\ Becomes(r.db)
  /\ ret' = [op |-> op, args |-> args, error |-> r.error, value |-> r.value]
  /\ UNCHANGED <<dbCache, options, heap>>

\* the state after new VectorDB(o)
Constructed(o) ==
  /\ options = o
  /\ dimensions = NewVectorDB(o).dimensions
  /\ distance = NewVectorDB(o).distance
  /\ indexType = NewVectorDB(o).indexType
  /\ vectors = NewVectorDB(o).vectors
  /\ bm25Index = NewVectorDB(o).bm25Index
  /\ bm25TextFields = NewVectorDB(o).bm25TextFields
  /\ ret = [op |-> "new", args |-> o, error |-> "none", value |-> Undef]
  /\ dbCache = <<>>
  /\ heap = EmptyHeap

Insert(id, vector, metadata) ==
  LET Ran(r) ==
        /\ Len(r.db.vectors) <= MaxVectors
        /\ Call("insert", [id |-> id, vector |-> vector, metadata |-> metadata], r)
  IN Ran(insert(Self, id, vector, metadata))

Upsert(id, vector, metadata) ==
  LET Ran(r) ==
        /\ Len(r.db.vectors) <= MaxVectors
        /\ Call("upsert", [id |-> id, vector |-> vector, metadata |-> metadata], r)
  IN Ran(upsert(Self, id, vector, metadata))

Delete(id) == Call("delete", [id |-> id], delete(Self, id))

Clear == Call("clear", [id |-> NotGiven], clear(Self))

ConfigureBM25(textFields, k1, b) ==
  Call("configureBM25", [textFields |-> textFields, k1 |-> k1, b |-> b],
       configureBM25(Self, textFields, k1, b))

Search(query, k, filter, minSimilarity) ==
  Call("search",
       [query |-> query, k |-> k, filter |-> filter, minSimilarity |-> minSimilarity],
       search(Self, query, k, filter, minSimilarity))

KeywordSearch(query, k, textFields, filter, k1, b) ==
  Call("keywordSearch",
       [query |-> query, k |-> k, textFields |-> textFields, filter |-> filter,
        k1 |-> k1, b |-> b],
       keywordSearch(Self, query, k, textFields, filter, k1, b))

HybridSearch(o) ==
  LET Ran(r) ==
        /\ Becomes(r.db)
        /\ ret' = [op |-> "hybridSearch", args |-> o, error |-> r.error,
                   value |-> r.value, calls |-> r.calls]
        /\ UNCHANGED <<dbCache, options, heap>>
  IN Ran(hybridSearch(Self, o))

\* ------------------------------------------------------------------------
\* Inputs
\* ------------------------------------------------------------------------

Ids == {"a", "b", "c"}

TitleKey == <<"t", "i", "t", "l", "e">>

TagsKey == <<"t", "a", "g", "s">>

NKey == <<"n">>

\* {title: "Red fox", n: 5}
MetaFox ==
  Obj(TitleKey :> Str(<<"R", "e", "d", " ", "f", "o", "x">>) @@ NKey :> Num(5))

\* {title: "fox, dog", tags: ["red", 7], n: "5"}
MetaDog ==
  Obj(TitleKey :> Str(<<"f", "o", "x", ",", " ", "d", "o", "g">>)
      @@ TagsKey :> Arr(<<Str(<<"r", "e", "d">>), Num(7)>>)
      @@ NKey :> Str(<<"5">>))

QueryFox == <<"F", "o", "x">>

\* the options of hybridSearch that are not given
NoOptions ==
  [mode |-> "hybrid", k |-> 1, queryVector |-> Undef, keywords |-> Undef,
   textFields |-> Undef, filter |-> Undef, minSimilarity |-> Undef,
   alpha |-> Undef, fusionMethod |-> NotGiven, rrfConstant |-> Undef,
   bm25K1 |-> Undef, bm25B |-> Undef]

\* ------------------------------------------------------------------------
\* Spec: a store under every operation
\* ------------------------------------------------------------------------

\* the records insert and upsert are called with: a vector of each length,
\* right for one store and wrong for the other, with metadata that has text,
\* and a vector without metadata (the argument omitted)
Records ==
  {[vector |-> <<1>>, metadata |-> Undef],
   [vector |-> <<1>>, metadata |-> MetaFox],
   [vector |-> <<1, 0>>, metadata |-> MetaFox]}

\* the query vectors: one of each length
Vectors == {<<1>>, <<1, 0>>}

\* the options of the constructor: a store of each length, one with the
\* default metric and one with a metric given
StoreOptions ==
  {[dimensions |-> 1, distance |-> NotGiven, indexType |-> NotGiven],
   [dimensions |-> 2, distance |-> "euclidean", indexType |-> NotGiven]}

\* hybridSearch in each mode, with the inputs of the mode
SearchInputs ==
  {[NoOptions EXCEPT !.mode = "vector", !.queryVector = Arr(<<1, 0>>)],
   [NoOptions EXCEPT !.mode = "keyword", !.keywords = Str(QueryFox)],
   [NoOptions EXCEPT !.mode = "hybrid", !.queryVector = Arr(<<1, 0>>),
                     !.keywords = Str(QueryFox)]}

Init == \E o \in StoreOptions : Constructed(o)

Next ==
  \/ \E id \in Ids, r \in Records : Insert(id, r.vector, r.metadata)
  \/ \E id \in Ids, r \in Records : Upsert(id, r.vector, r.metadata)
  \/ \E id \in Ids : Delete(id)
  \/ Clear
  \/ ConfigureBM25(<<TagsKey, TitleKey>>, Undef, Undef)
  \/ \E q \in Vectors : Search(q, 1, Undef, Undef)
  \/ \E f \in {Undef, Arr(<<TitleKey>>)} :
       KeywordSearch(QueryFox, 1, f, Undef, Undef, Undef)
  \/ \E o \in SearchInputs : HybridSearch(o)

Spec == Init /\ [][Next]_vars

\* ------------------------------------------------------------------------
\* SpecBM25: a BM25 index on its own, under its four mutators.  The index
\* is held in bm25Index; the other fields of the store are not used.
\* ------------------------------------------------------------------------

\* largest number of documents the index is driven to
MaxDocs == 2

\* the metadata of the documents: with a title, with a title and tags that
\* share terms with it, and none
Documents == {MetaFox, MetaDog, Null}

\* the call op(args) of the index ran, leaving the index next
IndexCall(op, args, next, value) ==
  /\ bm25Index' = next
  /\ ret' = [op |-> op, args |-> args, error |-> "none", value |-> value]
  /\ UNCHANGED <<dbCache, options, dimensions, distance, indexType, vectors, bm25TextFields,
               heap>>

AddDocument(id, metadata) ==
  /\ Len(addDocument(bm25Index, id, metadata).documents) <= MaxDocs
  /\ IndexCall("addDocument", [id |-> id, metadata |-> metadata],
               addDocument(bm25Index, id, metadata), Undef)

UpdateDocument(id, metadata) ==
  /\ Len(updateDocument(bm25Index, id, metadata).documents) <= MaxDocs
  /\ IndexCall("updateDocument", [id |-> id, metadata |-> metadata],
               updateDocument(bm25Index, id, metadata), Undef)

RemoveDocument(id) ==
  IndexCall("removeDocument", [id |-> id, metadata |-> Undef],
            removeDocument(bm25Index, id),
            Bool(removeDocumentResult(bm25Index, id)))

ClearIndex ==
  IndexCall("clear", [id |-> NotGiven, metadata |-> Undef],
            clearIndex(bm25Index), Undef)

\* search(query, k) of the index
IndexSearch(query, k) ==
  IndexCall("search", [query |-> query, k |-> k], bm25Index,
            indexSearch(bm25Index, query, k))

\* the queries of the index search: a term of one document, a term of both
\* in another case, a term of none beside a term of one, and a term of none
IndexQueries ==
  {<<"d", "o", "g">>, QueryFox, <<"c", "a", "t", " ", "D", "O", "G">>,
   <<"c", "a", "t">>}

\* k1 and b as given to the constructor: not given (1.2 and 0.75), and the
\* ends of the ranges the node offers, 0 to 3 for k1 and 0 to 1 for b
IndexParameters ==
  {[k1 |-> Undef, b |-> Undef],
   [k1 |-> Num(Rat(0, 1)), b |-> Num(Rat(1, 1))],
   [k1 |-> Num(Rat(3, 1)), b |-> Num(Rat(0, 1))],
   [k1 |-> Num(Rat(3, 1)), b |-> Num(Rat(1, 1))]}

\* new BM25Index({textFields: ['tags', 'title'], k1, b})
InitBM25 ==
  /\ options = [dimensions |-> 1, distance |-> NotGiven, indexType |-> NotGiven]
  /\ dimensions = NewVectorDB(options).dimensions
  /\ distance = NewVectorDB(options).distance
  /\ indexType = NewVectorDB(options).indexType
  /\ vectors = <<>>
  /\ bm25TextFields = <<>>
  /\ dbCache = <<>>
  /\ heap = EmptyHeap
  /\ \E p \in IndexParameters :
       /\ bm25Index = NewBM25Index(<<TagsKey, TitleKey>>, p.k1, p.b)
       /\ ret = [op |-> "new",
                 args |-> [textFields |-> <<TagsKey, TitleKey>>, k1 |-> p.k1,
                           b |-> p.b],
                 error |-> "none", value |-> Undef]

NextBM25 ==
  \/ \E id \in Ids, m \in Documents : AddDocument(id, m)
  \/ \E id \in Ids, m \in Documents : UpdateDocument(id, m)
  \/ \E id \in Ids : RemoveDocument(id)
  \/ ClearIndex
  \/ \E q \in IndexQueries, k \in 0..MaxDocs : IndexSearch(q, k)

SpecBM25 == InitBM25 /\ [][NextBM25]_vars

\* ------------------------------------------------------------------------
\* SpecSearch: stores of each metric, filled by insert and queried by search
\* with every k from -1 to MaxK, with and without a filter and a threshold
\* ------------------------------------------------------------------------

\* {n: 5}: matches MetaFox, whose n is the number 5, and not MetaDog, whose
\* n is the string "5"
FilterN5 == Obj(NKey :> Num(5))

\* the records inserted: two vectors at different distances from each
\* query, the second with each metadata
SearchRecords ==
  {[vector |-> <<1, 0>>, metadata |-> MetaFox],
   [vector |-> <<-1, 1>>, metadata |-> MetaFox],
   [vector |-> <<-1, 1>>, metadata |-> MetaDog]}

SearchQueries == {<<1, 0>>, <<1, 1>>}

InitSearch ==
  \E m \in {NotGiven, "euclidean", "dot"} :
    Constructed([dimensions |-> 2, distance |-> m, indexType |-> NotGiven])

NextSearch ==
  \/ \E id \in Ids, r \in SearchRecords : Insert(id, r.vector, r.metadata)
  \/ \E q \in SearchQueries, k \in -1..MaxK, f \in {Undef, FilterN5},
        s \in {Undef, Num(Rat(1, 2))} :
       Search(q, k, f, s)

SpecSearch == InitSearch /\ [][NextSearch]_vars

\* ------------------------------------------------------------------------
\* SpecNearest: stores of each metric holding records without metadata, and
\* search with every k from 0 to MaxK, without filter and threshold
\* ------------------------------------------------------------------------

\* the vectors inserted: at different distances from each query under each
\* metric, one of them at a negative cosine and dot similarity to <<1, 0>>
NearestVectors == {<<1, 0>>, <<-1, 1>>, <<0, 2>>}

InitNearest ==
  \E m \in {NotGiven, "euclidean", "dot"} :
    Constructed([dimensions |-> 2, distance |-> m, indexType |-> NotGiven])

NextNearest ==
  \/ \E id \in Ids, v \in NearestVectors : Insert(id, v, Undef)
  \/ \E q \in SearchQueries, k \in 0..MaxK : Search(q, k, Undef, Undef)

SpecNearest == InitNearest /\ [][NextNearest]_vars

\* ------------------------------------------------------------------------
\* SpecFilter: evaluateFilter, and search with a filter, over a store of one
\* record, for every metadata and filter below
\* ------------------------------------------------------------------------

\* {n: v}
MetaN(v) == Obj(NKey :> v)

\* {a: v}
MetaA(v) == Obj(<<"a">> :> v)

\* {b: v}
MetaB(v) == Obj(<<"b">> :> v)

\* metadata with a nested object: {a: {b: 5}}, {a: {b: "5"}}, {a: {b: 5, n: 1}},
\* and with something else under a: a number, a string, null, an array, an
\* object without b; and the flat key: {"a.b": 5}
NestedMetas ==
  {MetaA(MetaB(Num(5))), MetaA(MetaB(Str(<<"5">>))),
   MetaA(Obj(<<"b">> :> Num(5) @@ NKey :> Num(1))),
   MetaA(Num(5)), MetaA(Str(<<"b">>)), MetaA(Null), MetaA(Arr(<<Num(5)>>)),
   MetaA(MetaN(Num(5))), Obj(<<"a", ".", "b">> :> Num(5))}

\* filters with a plain value on a dot path: {"a.b": 5}, {"a.b": "5"}
DotFilters ==
  {Obj(<<"a", ".", "b">> :> Num(5)), Obj(<<"a", ".", "b">> :> Str(<<"5">>))}

\* the metadata of the record: omitted, and with n a number below and above
\* 7, a string of a digit, a string of letters, null and absent
FilterMetas ==
  {Undef, MetaN(Num(5)), MetaN(Num(10)), MetaN(Str(<<"5">>)),
   MetaN(Str(<<"a", "b", "c">>)), MetaN(Null),
   Obj(TitleKey :> Str(<<"a", "b", "c">>))}
  \cup NestedMetas

\* {n: {operator: operand}}
Condition(operator, operand) == MetaN(Obj(operator :> operand))

OrderingOperators ==
  {<<"$", "g", "t">>, <<"$", "g", "t", "e">>, <<"$", "l", "t">>,
   <<"$", "l", "t", "e">>}

\* {$or: []}
EmptyOr == Obj(OrKey :> Arr(<<>>))

\* {$and: []}
EmptyAnd == Obj(AndKey :> Arr(<<>>))

\* {}
EmptyFilter == Obj(EmptyMap)

\* {$or: [], n: 5}
EmptyOrAndN5 == Obj(OrKey :> Arr(<<>>) @@ NKey :> Num(5))

\* filters without a fault
SoundFilters ==
  {EmptyFilter, EmptyAnd, EmptyOr, EmptyOrAndN5, MetaN(Num(5)),
   Obj(OrKey :> Arr(<<MetaN(Num(5)), MetaN(Num(10))>>)),
   Obj(AndKey :> Arr(<<MetaN(Num(5))>>))}
  \cup {Condition(o, Num(7)) : o \in OrderingOperators}

\* filters with a fault: an operator that does not exist, an operand of the
\* wrong type, a $and or $or that is no list, a sub-filter that is null
MalformedFilters ==
  {Condition(<<"$", "f", "o", "o">>, Num(1)),
   Condition(<<"$", "i", "n">>, Num(5)),
   Condition(<<"$", "c", "o", "n", "t", "a", "i", "n", "s">>, Num(5)),
   Obj(AndKey :> Num(5)),
   Obj(OrKey :> Obj(NKey :> Num(5))),
   Obj(AndKey :> Arr(<<Null>>)),
   Obj(OrKey :> Arr(<<Num(5)>>))}

\* the operators evaluateCondition has a case for
RecognisedOperators ==
  OrderingOperators
  \cup {<<"$", "e", "q">>, <<"$", "n", "e">>, <<"$", "i", "n">>,
        <<"$", "n", "i", "n">>, <<"$", "e", "x", "i", "s", "t", "s">>,
        <<"$", "c", "o", "n", "t", "a", "i", "n", "s">>,
        <<"$", "s", "t", "a", "r", "t", "s", "W", "i", "t", "h">>,
        <<"$", "e", "n", "d", "s", "W", "i", "t", "h">>}

\* operator objects on n: two operators, an operator beside an unknown one,
\* $in and $nin with a list and with a number, $exists true and false, and
\* the ordering operators with a string operand
OperatorConditions ==
  {Obj(<<"$", "g", "t">> :> Num(3) @@ <<"$", "l", "t">> :> Num(7)),
   Obj(<<"$", "g", "t", "e">> :> Num(5) @@ <<"$", "f", "o", "o">> :> Num(1)),
   Obj(<<"$", "n", "e">> :> Num(5) @@ <<"$", "e", "x", "i", "s", "t", "s">> :> Bool(TRUE)),
   Obj(<<"$", "i", "n">> :> Arr(<<Num(5), Str(<<"5">>)>>)),
   Obj(<<"$", "n", "i", "n">> :> Arr(<<Num(5)>>)),
   Obj(<<"$", "n", "i", "n">> :> Num(5)),
   Obj(<<"$", "e", "x", "i", "s", "t", "s">> :> Bool(TRUE)),
   Obj(<<"$", "e", "x", "i", "s", "t", "s">> :> Bool(FALSE))}
  \cup {Obj(o :> Str(<<"5">>)) : o \in OrderingOperators}

\* {n: {$gte: 5}, $and: [{n: {$lt: 7}}], $or: [{title: "abc"}, {n: 5}]}
\* and {n: {$gt: 3}, title: "abc", $or: [{n: 10}]}
CombinedFilters ==
  {Obj(NKey :> Obj(<<"$", "g", "t", "e">> :> Num(5))
       @@ AndKey :> Arr(<<Condition(<<"$", "l", "t">>, Num(7))>>)
       @@ OrKey :> Arr(<<Obj(TitleKey :> Str(<<"a", "b", "c">>)), MetaN(Num(5))>>)),
   Obj(NKey :> Obj(<<"$", "g", "t">> :> Num(3))
       @@ TitleKey :> Str(<<"a", "b", "c">>)
       @@ OrKey :> Arr(<<MetaN(Num(10))>>))}

OperatorFilters == {MetaN(c) : c \in OperatorConditions} \cup CombinedFilters

\* the call evaluateFilter(metadata of the record, filter)
EvaluateFilter(filter) ==
  LET Ran(r) ==
        ret' = [op |-> "evaluateFilter",
                args |-> [metadata |-> vectors[1].metadata, filter |-> filter],
                error |-> IF r = "TypeError" THEN r ELSE "none",
                value |-> IF r = "TypeError" THEN Undef ELSE Bool(r = "true")]
  IN /\ Ran(evaluateFilter(vectors[1].metadata, filter))
     /\ UNCHANGED <<dbCache, options, store, heap>>

\* the state after new VectorDB({dimensions: 1}) and insert("a", [1], m)
InitFilter ==
  \E m \in FilterMetas :
    LET o == [dimensions |-> 1, distance |-> NotGiven, indexType |-> NotGiven]
        r == insert(NewVectorDB(o), "a", <<1>>, m)
    IN /\ options = o
       /\ dimensions = r.db.dimensions
       /\ distance = r.db.distance
       /\ indexType = r.db.indexType
       /\ vectors = r.db.vectors
       /\ bm25Index = r.db.bm25Index
       /\ bm25TextFields = r.db.bm25TextFields
       /\ dbCache = <<>>
       /\ heap = EmptyHeap
       /\ ret = [op |-> "insert",
                 args |-> [id |-> "a", vector |-> <<1>>, metadata |-> m],
                 error |-> r.error, value |-> r.value]

NextFilter ==
  \/ \E f \in SoundFilters \cup MalformedFilters \cup DotFilters \cup OperatorFilters :
       EvaluateFilter(f)
  \/ \E f \in SoundFilters \cup MalformedFilters \cup DotFilters :
       Search(<<1>>, 1, f, Undef)

SpecFilter == InitFilter /\ [][NextFilter]_vars

\* ------------------------------------------------------------------------
\* SpecHybrid: hybridSearch in every mode, with and without its inputs, on
\* a store with and without records and a BM25 index
\* ------------------------------------------------------------------------

\* the records of the store: both have a title with the term of QueryFox
HybridRecords ==
  {[vector |-> <<1, 0>>, metadata |-> MetaFox],
   [vector |-> <<0, 1>>, metadata |-> MetaDog]}

\* the options of hybridSearch: each mode with the query vector given or
\* not and the keywords given, empty or not given; and, the inputs of the
\* mode being given, the text fields given empty or given as the title
HybridInputs ==
  {[NoOptions EXCEPT !.mode = m, !.queryVector = q, !.keywords = w] :
     m \in {"vector", "keyword", "hybrid"},
     q \in {Undef, Arr(<<1, 0>>)},
     w \in {Undef, Str(<<>>), Str(QueryFox)}}
  \cup
  {[NoOptions EXCEPT !.mode = m, !.queryVector = Arr(<<1, 0>>),
                     !.keywords = Str(QueryFox), !.textFields = f] :
     m \in {"keyword", "hybrid"},
     f \in {Arr(<<>>), Arr(<<TitleKey>>)}}

InitHybrid ==
  Constructed([dimensions |-> 2, distance |-> NotGiven, indexType |-> NotGiven])

NextHybrid ==
  \/ \E id \in Ids, r \in HybridRecords : Insert(id, r.vector, r.metadata)
  \/ ConfigureBM25(<<TagsKey>>, Undef, Undef)
  \/ KeywordSearch(QueryFox, 1, Undef, Undef, Undef, Undef)
  \/ \E o \in HybridInputs : HybridSearch(o)

SpecHybrid == InitHybrid /\ [][NextHybrid]_vars

\* ------------------------------------------------------------------------
\* SpecExport: a store under insert, upsert, delete and configureBM25,
\* exported and imported at any point; the imported store takes the place
\* of the exported one
\* ------------------------------------------------------------------------

\* the call export()
Export == Call("export", [id |-> NotGiven], Returns(Self, export(Self)))

\* the call VectorDB.import(data) with the data of the export that has just
\* been made
Import ==
  /\ ret.op = "export"
  /\ Becomes(import(ret.value))
  /\ options' = [dimensions |-> ret.value.dimensions,
                 distance |-> ret.value.distance,
                 indexType |-> ret.value.indexType]
  /\ ret' = [op |-> "import", args |-> [data |-> ret.value], error |-> "none",
             value |-> Undef]
  /\ UNCHANGED <<dbCache, heap>>

\* the records that are inserted: with text, and with text and tags
ExportRecords ==
  {[vector |-> <<1>>, metadata |-> MetaFox],
   [vector |-> <<2>>, metadata |-> MetaDog]}

InitExport ==
  Constructed([dimensions |-> 1, distance |-> "euclidean", indexType |-> NotGiven])

\* upsert is called without metadata
NextExport ==
  \/ \E id \in Ids, r \in ExportRecords : Insert(id, r.vector, r.metadata)
  \/ \E id \in Ids : Upsert(id, <<3>>, Undef)
  \/ \E id \in Ids : Delete(id)
  \/ \E f \in {<<TitleKey>>, <<TagsKey, TitleKey>>} : ConfigureBM25(f, Undef, Undef)
  \/ Export
  \/ Import

SpecExport == InitExport /\ [][NextExport]_vars

\* ------------------------------------------------------------------------
\* SpecImport: a store filled by insert, exported and imported again, or
\* made by import of a snapshot that no export has produced, and searched
\* in keyword mode
\* ------------------------------------------------------------------------

\* the call VectorDB.import(data)
ImportSnapshot(data) ==
  /\ Becomes(import(data))
  /\ options' = [dimensions |-> data.dimensions, distance |-> data.distance,
                 indexType |-> data.indexType]
  /\ ret' = [op |-> "import", args |-> [data |-> data], error |-> "none",
             value |-> Undef]
  /\ UNCHANGED <<dbCache, heap>>

\* a stored vector as export writes it for a store with the euclidean metric
Persisted(id, vector, metadata) ==
  [id |-> id, vector |-> vector, metadata |-> metadata, norm |-> Undef]

\* a snapshot of a store of 1 dimension with the vectors and the index given
Snapshot(list, index) ==
  [version |-> "2.0.0", dimensions |-> 1, distance |-> "euclidean",
   indexType |-> "flat", vectors |-> list, bm25Index |-> index]

\* snapshots of the persisted shape that no export produces: a vector of 2
\* components, the id "a" twice, and an index over title whose one document
\* is "b" beside the one vector "a"
Snapshots ==
  {Snapshot(<<Persisted("a", <<1, 0>>, MetaFox)>>, Undef),
   Snapshot(<<Persisted("a", <<1>>, MetaFox), Persisted("a", <<2>>, MetaDog)>>, Undef),
   Snapshot(<<Persisted("a", <<1>>, MetaFox)>>,
            serialize(addDocument(NewBM25Index(<<TitleKey>>, Undef, Undef),
                                  "b", MetaFox)))}

InitImport ==
  Constructed([dimensions |-> 1, distance |-> "euclidean", indexType |-> NotGiven])

NextImport ==
  \/ \E id \in Ids, r \in ExportRecords : Insert(id, r.vector, r.metadata)
  \/ ConfigureBM25(<<TitleKey>>, Undef, Undef)
  \/ Export
  \/ Import
  \/ \E data \in Snapshots : ImportSnapshot(data)
  \/ HybridSearch([NoOptions EXCEPT !.mode = "keyword", !.keywords = Str(QueryFox),
                                    !.k = MaxK])
  \/ Search(<<1>>, MaxK, Undef, Undef)

SpecImport == InitImport /\ [][NextImport]_vars

\* ------------------------------------------------------------------------
\* SpecRank: hybridSearch in every mode on a store with the cosine metric,
\* with the weighted fusion, a minimum similarity, text fields and k1 given
\* or not
\* ------------------------------------------------------------------------

\* the record of each id: similar to the query [1, 0] with a title,
\* dissimilar to it with a title and tags, and in between without metadata
RankRecords ==
  [id \in Ids |->
     IF id = "a" THEN [vector |-> <<1, 0>>, metadata |-> MetaFox]
     ELSE IF id = "b" THEN [vector |-> <<-1, 1>>, metadata |-> MetaDog]
     ELSE [vector |-> <<1, 1>>, metadata |-> Undef]]

\* the query vector [1, 0] and the keywords "red fox"
RankQuery ==
  [NoOptions EXCEPT !.queryVector = Arr(<<1, 0>>),
                    !.keywords = Str(<<"r", "e", "d", " ", "f", "o", "x">>)]

\* the options of hybridSearch: every mode with the defaults; the weighted
\* fusion with alpha 0 and 1, with and without a minimum similarity; a
\* minimum similarity of 1/2; the tags as text fields; a k1 of 2
RankInputs ==
  {[RankQuery EXCEPT !.mode = m, !.k = k] :
     m \in {"vector", "keyword", "hybrid"}, k \in 1..MaxK}
  \cup
  {[RankQuery EXCEPT !.mode = "hybrid", !.k = k, !.fusionMethod = "weighted",
                     !.alpha = Num(Rat(a, 1)), !.minSimilarity = s] :
     k \in 1..MaxK, a \in {0, 1}, s \in {Undef, Num(Rat(1, 2))}}
  \cup
  {[RankQuery EXCEPT !.mode = m, !.k = k, !.minSimilarity = Num(Rat(1, 2))] :
     m \in {"vector", "hybrid"}, k \in 1..MaxK}
  \cup
  {[RankQuery EXCEPT !.mode = m, !.k = MaxK, !.textFields = Arr(<<TagsKey>>)] :
     m \in {"keyword", "hybrid"}}
  \cup
  {[RankQuery EXCEPT !.mode = "keyword", !.k = MaxK, !.bm25K1 = Num(Rat(2, 1))]}
  \cup
  {[RankQuery EXCEPT !.mode = "hybrid", !.k = MaxK, !.fusionMethod = f,
                     !.filter = FilterN5] :
     f \in {NotGiven, "weighted"}}

InitRank ==
  Constructed([dimensions |-> 2, distance |-> NotGiven, indexType |-> NotGiven])

NextRank ==
  \/ \E id \in Ids : Insert(id, RankRecords[id].vector, RankRecords[id].metadata)
  \/ \E o \in RankInputs : HybridSearch(o)

SpecRank == InitRank /\ [][NextRank]_vars

\* ------------------------------------------------------------------------
\* SpecFusion: hybridFusion with the rrf method on the two ranked lists that
\* the searches of hybridSearch hand to it, for every pair of lists below
\* ------------------------------------------------------------------------

\* the rankings: the sequences of ids without repetition, as search and
\* keywordSearch return them
Rankings ==
  {r \in UNION {[1..n -> Ids] : n \in 0..MaxVectors} :
     \A i, j \in DOMAIN r : i # j => r[i] # r[j]}

\* a list of vector results in this order, the distance growing
VectorResults(ranking) ==
  [i \in DOMAIN ranking |->
     [id |-> ranking[i], distance |-> IntReal(i),
      similarity |-> similarityOf("euclidean", IntReal(i)), metadata |-> Undef]]

\* a list of keyword results in this order, the score falling
KeywordResults(ranking) ==
  [i \in DOMAIN ranking |->
     [id |-> ranking[i], score |-> (Len(ranking) - i + 1) * Scale,
      metadata |-> Undef]]

\* the call hybridFusion(vectorResults, keywordResults, k, 'rrf',
\* {rrfConstant}) with the inputs drawn
Fuse ==
  /\ ret.op = "input"
  /\ ret' = [op |-> "reciprocalRankFusion", args |-> ret.args, error |-> "none",
             value |-> hybridFusion(ret.args.vectorResults,
                                    ret.args.keywordResults, ret.args.k, "rrf",
                                    Undef, ret.args.rrfConstant)]
  /\ UNCHANGED <<dbCache, options, store, heap>>

\* the inputs: two rankings, a k from -1 on, the constant not given or 1
InitFusion ==
  /\ options = [dimensions |-> 1, distance |-> NotGiven, indexType |-> NotGiven]
  /\ dimensions = NewVectorDB(options).dimensions
  /\ distance = NewVectorDB(options).distance
  /\ indexType = NewVectorDB(options).indexType
  /\ vectors = <<>>
  /\ bm25TextFields = <<>>
  /\ bm25Index = Null
  /\ dbCache = <<>>
  /\ heap = EmptyHeap
  /\ \E v \in Rankings, w \in Rankings, k \in -1..(MaxK + 1),
        c \in {Undef, Num(1)} :
       ret = [op |-> "input",
              args |-> [vectorResults |-> VectorResults(v),
                        keywordResults |-> KeywordResults(w),
                        k |-> k, rrfConstant |-> c],
              error |-> "none", value |-> Undef]

NextFusion == Fuse

SpecFusion == InitFusion /\ [][NextFusion]_vars

\* ------------------------------------------------------------------------
\* The arrays shared between the caller and the store: insert and get with
\* the identity of the vector arrays, and the caller writing into its arrays
\* ------------------------------------------------------------------------

\* largest number of arrays the caller holds
MaxArrays == 3

\* the number of stored-vector objects that are made
MaxObjects == 3

\* the stored vector is a mutated argument array (no copy in insert)
insertedVectorAtArgument(argumentAt, freshAt) == argumentAt

\* vector: [...vector] in insert: the stored array is a new object
insertedVectorAt(argumentAt, freshAt) == freshAt

\* vector: [...stored.vector] in get: the returned array is a new object
gotVectorAt(storedAt, freshAt) == freshAt

\* the record inserted under each id
AliasRecords ==
  [id \in {"a", "b"} |->
     IF id = "a" THEN [vector |-> <<1, 2>>, metadata |-> MetaFox]
     ELSE [vector |-> <<3, 4>>, metadata |-> Undef]]

\* the map m with key id set to value at
WithAddress(m, id, at) ==
  [i \in DOMAIN m \cup {id} |-> IF i = id THEN at ELSE m[i]]

\* the caller makes an array, passes it to insert and keeps it
InsertArray(id) ==
  LET Ran(r) ==
        /\ Len(heap.caller) < MaxArrays
        /\ Becomes(r.db)
        /\ ret' = [op |-> "insert",
                   args |-> [id |-> id, vector |-> AliasRecords[id].vector,
                             metadata |-> AliasRecords[id].metadata],
                   error |-> r.error, value |-> r.value]
        /\ heap' =
             [next |-> heap.next + 2,
              caller |-> Append(heap.caller,
                                [at |-> heap.next, from |-> "insert", id |-> id,
                                 value |-> AliasRecords[id].vector]),
              vectorAt |->
                IF r.error = "none"
                THEN WithAddress(heap.vectorAt, id,
                                 insertedVectorAt(heap.next, heap.next + 1))
                ELSE heap.vectorAt]
        /\ UNCHANGED <<dbCache, options>>
  IN Ran(insert(Self, id, AliasRecords[id].vector, AliasRecords[id].metadata))

\* the caller calls get and keeps the array of the result
GetArray(id) ==
  LET Ran(r) ==
        /\ Len(heap.caller) < MaxArrays
        /\ Becomes(r.db)
        /\ ret' = [op |-> "get", args |-> [id |-> id], error |-> r.error,
                   value |-> r.value]
        /\ heap' =
             IF r.value = Null THEN heap
             ELSE [heap EXCEPT
                     !.next = @ + 1,
                     !.caller =
                       Append(@, [at |-> gotVectorAt(heap.vectorAt[id], heap.next),
                                  from |-> "get", id |-> id,
                                  value |-> r.value.vector])]
        /\ UNCHANGED <<dbCache, options>>
  IN Ran(get(Self, id))

\* the array at address at now holds value: every name of it sees the change
WrittenVectors(at, value) ==
  [i \in DOMAIN vectors |->
     IF heap.vectorAt[vectors[i].id] = at
     THEN [vectors[i] EXCEPT !.vector = value]
     ELSE vectors[i]]

WrittenArrays(at, value) ==
  [i \in DOMAIN heap.caller |->
     IF heap.caller[i].at = at
     THEN [heap.caller[i] EXCEPT !.value = value]
     ELSE heap.caller[i]]

\* the caller writes 0 at position pos of the i-th array it holds
MutateArray(i, pos) ==
  /\ i \in DOMAIN heap.caller
  /\ pos \in DOMAIN heap.caller[i].value
  /\ heap.caller[i].value[pos] # 0
  /\ vectors' = WrittenVectors(heap.caller[i].at,
                               [heap.caller[i].value EXCEPT ![pos] = 0])
  /\ heap' = [heap EXCEPT
                !.caller = WrittenArrays(heap.caller[i].at,
                                         [heap.caller[i].value EXCEPT ![pos] = 0])]
  /\ ret' = [op |-> "mutate", args |-> [array |-> i, position |-> pos],
             error |-> "none", value |-> Undef]
  /\ UNCHANGED <<dbCache, options, dimensions, distance, indexType, bm25Index,
                 bm25TextFields>>

InitAlias ==
  Constructed([dimensions |-> 2, distance |-> NotGiven, indexType |-> NotGiven])

NextAlias ==
  \/ \E id \in DOMAIN AliasRecords : InsertArray(id)
  \/ \E id \in DOMAIN AliasRecords : GetArray(id)
  \/ \E i \in 1..MaxArrays, pos \in 1..2 : MutateArray(i, pos)

SpecAlias == InitAlias /\ [][NextAlias]_vars

\* ------------------------------------------------------------------------
\* SpecSnapshot: a store, the snapshot export has returned and the store
\* import has made of it, with the stored-vector objects followed by
\* address.  heap is here the record of next, the address of the next
\* object made; objects, the object at each address; at, the addresses of
\* the entries of this.vectors; snapshot, the addresses of the entries of
\* the vectors array of the snapshot with the rest of its data; imported,
\* the imported store with the addresses of its entries.  The vectors of a
\* store are what is read at the addresses of its entries.
\* ------------------------------------------------------------------------

\* the objects at the addresses of a list
Deref(objects, at) == [i \in DOMAIN at |-> objects[at[i]]]

\* the address of the entry of id in a list of entries at the addresses at,
\* 0 when there is none
AddressOf(list, at, id) ==
  IF \E i \in DOMAIN list : list[i].id = id
  THEN at[CHOOSE i \in DOMAIN list : list[i].id = id]
  ELSE 0

\* the entry set by insert and upsert is the object the Map already holds
\* for the id, written in place
storedAtExisting(existingAt, freshAt) ==
  IF existingAt = 0 THEN freshAt ELSE existingAt

\* this.vectors.set(id, {id, vector, metadata, norm}) in insert and upsert:
\* the entry set is a new object
storedAt(existingAt, freshAt) == freshAt

\* the addresses of the entries after a call that left the entries after
\* and set the entry of setId ("" when it set none)
AddressesAfter(before, at, after, setId, next) ==
  [i \in DOMAIN after |->
     IF after[i].id = setId THEN storedAt(AddressOf(before, at, setId), next)
     ELSE AddressOf(before, at, after[i].id)]

\* the objects after the same call
ObjectsAfter(objects, before, at, after, setId, next) ==
  IF setId = "" THEN objects
  ELSE (storedAt(AddressOf(before, at, setId), next)
          :> after[CHOOSE i \in DOMAIN after : after[i].id = setId]) @@ objects

\* the heap without the objects that neither store nor the snapshot holds
Collected(h) ==
  [h EXCEPT
     !.objects =
        [a \in {a \in DOMAIN h.objects :
                  \/ \E i \in DOMAIN h.at : h.at[i] = a
                  \/ /\ h.snapshot.t # "null"
                     /\ \E i \in DOMAIN h.snapshot.vectorsAt :
                          h.snapshot.vectorsAt[i] = a
                  \/ /\ h.imported.t # "null"
                     /\ \E i \in DOMAIN h.imported.at : h.imported.at[i] = a}
           |-> h.objects[a]]]

\* the store of the variables, or the imported store, with its addresses
StoreOf(who) ==
  IF who = "store" THEN [t |-> "store", db |-> Self, at |-> heap.at]
  ELSE heap.imported

\* the store with the entries read at its addresses
ReadAt(db, objects, at) == [db EXCEPT !.vectors = Deref(objects, at)]

\* the call op(args) ran on the store who with outcome r, and set the entry
\* of setId when it returned
CallOn(who, op, args, r, setId) ==
  LET Written(before, set) ==
        LET Stores(objects, at) ==
              /\ heap' = Collected(
                   [heap EXCEPT
                      !.next = IF set = "" THEN @ ELSE @ + 1,
                      !.objects = objects,
                      !.at = IF who = "store" THEN at ELSE @,
                      !.imported =
                         IF who = "store"
                         THEN IF @.t = "null" THEN @
                              ELSE [t |-> "store",
                                    db |-> ReadAt(heap.imported.db, objects,
                                                  heap.imported.at),
                                    at |-> heap.imported.at]
                         ELSE [t |-> "store", db |-> ReadAt(r.db, objects, at),
                               at |-> at]])
              /\ Becomes(IF who = "store" THEN ReadAt(r.db, objects, at)
                         ELSE ReadAt(Self, objects, heap.at))
        IN Stores(ObjectsAfter(heap.objects, before.db.vectors, before.at,
                               r.db.vectors, set, heap.next),
                  AddressesAfter(before.db.vectors, before.at, r.db.vectors, set,
                                 heap.next))
  IN /\ (r.error = "none" /\ setId # "") => heap.next <= MaxObjects
     /\ Len(r.db.vectors) <= MaxVectors
     /\ Written(StoreOf(who), IF r.error = "none" THEN setId ELSE "")
     /\ ret' = [op |-> op, args |-> args, error |-> r.error, value |-> r.value,
                on |-> who]
     /\ UNCHANGED <<dbCache, options>>

\* the stores there are
Stores == {"store"} \cup (IF heap.imported.t = "null" THEN {} ELSE {"imported"})

InsertOn(who, id, vector, metadata) ==
  /\ who \in Stores
  /\ CallOn(who, "insert", [id |-> id, vector |-> vector, metadata |-> metadata],
            insert(StoreOf(who).db, id, vector, metadata), id)

UpsertOn(who, id, vector, metadata) ==
  /\ who \in Stores
  /\ CallOn(who, "upsert", [id |-> id, vector |-> vector, metadata |-> metadata],
            upsert(StoreOf(who).db, id, vector, metadata), id)

DeleteOn(who, id) ==
  /\ who \in Stores
  /\ CallOn(who, "delete", [id |-> id], delete(StoreOf(who).db, id), "")

ClearOn(who) ==
  /\ who \in Stores
  /\ CallOn(who, "clear", [id |-> NotGiven], clear(StoreOf(who).db), "")

\* s = store.export(): vectors is a new array of the entries of this.vectors
ExportSnapshot ==
  /\ heap.snapshot.t = "null"
  /\ heap' = [heap EXCEPT
                !.snapshot = [t |-> "snapshot", vectorsAt |-> heap.at,
                              data |-> export(Self)]]
  /\ ret' = [op |-> "export", args |-> [id |-> NotGiven], error |-> "none",
             value |-> export(Self), on |-> "store"]
  /\ UNCHANGED <<dbCache, options, store>>

\* the snapshot as it reads now
SnapshotRead(h) ==
  IF h.snapshot.t = "null" THEN Null
  ELSE [h.snapshot.data EXCEPT !.vectors = Deref(h.objects, h.snapshot.vectorsAt)]

\* b = VectorDB.import(s): every entry of b.vectors is a new object
ImportExported ==
  LET Loaded(b) ==
        /\ heap.next + Len(b.vectors) - 1 <= MaxObjects
        /\ heap' = [heap EXCEPT
                      !.next = @ + Len(b.vectors),
                      !.objects =
                         [a \in heap.next..(heap.next + Len(b.vectors) - 1) |->
                            b.vectors[a - heap.next + 1]] @@ @,
                      !.imported = [t |-> "store", db |-> b,
                                    at |-> [i \in DOMAIN b.vectors |->
                                              heap.next + i - 1]]]
  IN /\ heap.snapshot.t # "null"
     /\ heap.imported.t = "null"
     /\ Loaded(import(SnapshotRead(heap)))
     /\ ret' = [op |-> "import", args |-> [data |-> SnapshotRead(heap)],
                error |-> "none", value |-> Undef, on |-> "imported"]
     /\ UNCHANGED <<dbCache, options, store>>

InitSnapshot ==
  /\ options = [dimensions |-> 1, distance |-> "euclidean", indexType |-> NotGiven]
  /\ dimensions = NewVectorDB(options).dimensions
  /\ distance = NewVectorDB(options).distance
  /\ indexType = NewVectorDB(options).indexType
  /\ vectors = NewVectorDB(options).vectors
  /\ bm25Index = NewVectorDB(options).bm25Index
  /\ bm25TextFields = NewVectorDB(options).bm25TextFields
  /\ ret = [op |-> "new", args |-> options, error |-> "none", value |-> Undef,
            on |-> "store"]
  /\ dbCache = <<>>
  /\ heap = [next |-> 1, objects |-> <<>>, at |-> <<>>, snapshot |-> Null,
             imported |-> Null]

NextSnapshot ==
  \/ \E who \in {"store", "imported"}, id \in {"a", "b"} :
       InsertOn(who, id, <<1>>, MetaFox)
  \/ \E who \in {"store", "imported"}, id \in {"a", "b"} :
       UpsertOn(who, id, <<3>>, MetaDog)
  \/ \E who \in {"store", "imported"}, id \in {"a", "b"} : DeleteOn(who, id)
  \/ \E who \in {"store", "imported"} : ClearOn(who)
  \/ Len(vectors) = 0 /\ ConfigureBM25(<<TitleKey>>, Undef, Undef)
  \/ ExportSnapshot
  \/ ImportExported

SpecSnapshot == InitSnapshot /\ [][NextSnapshot]_vars

\* ------------------------------------------------------------------------
\* SpecRegistry: the registry under its functions, for two names, stores of
\* 1 and 2 dimensions, and the snapshots of SpecImport
\* ------------------------------------------------------------------------

\* the function op(args) of the registry ran with outcome r
RegistryCall(op, args, r) ==
  /\ dbCache' = r.cache
  /\ ret' = [op |-> op, args |-> args, error |-> r.error, value |-> r.value]
  /\ UNCHANGED <<options, store, heap>>

GetDB(name) == RegistryCall("getDB", [name |-> name], getDB(dbCache, name))

CreateDB(name, o) ==
  RegistryCall("createDB", [name |-> name, options |-> o],
               createDB(dbCache, name, o))

GetOrCreateDB(name, o) ==
  RegistryCall("getOrCreateDB", [name |-> name, options |-> o],
               getOrCreateDB(dbCache, name, o))

ImportDB(name, data) ==
  RegistryCall("importDB", [name |-> name, data |-> data],
               importDB(dbCache, name, data))

ListDBs == RegistryCall("listDBs", [name |-> NotGiven], listDBs(dbCache))

DeleteDB(name) ==
  RegistryCall("deleteDB", [name |-> name], deleteDB(dbCache, name))

ClearCache == RegistryCall("clearCache", [name |-> NotGiven], clearCache(dbCache))

\* the names of the stores
RegistryNames == {"x", "y"}

\* the options of createDB: a store of each length
RegistryOptions ==
  {[dimensions |-> d, distance |-> NotGiven, indexType |-> NotGiven] : d \in {1, 2}}

\* the module is loaded: the registry is empty; the store of the variables
\* is not registered and no function of the registry touches it
InitRegistry ==
  Constructed([dimensions |-> 1, distance |-> NotGiven, indexType |-> NotGiven])

NextRegistry ==
  \/ \E name \in RegistryNames : GetDB(name)
  \/ \E name \in RegistryNames, o \in RegistryOptions : CreateDB(name, o)
  \/ \E name \in RegistryNames, o \in RegistryOptions \cup {Undef} : GetOrCreateDB(name, o)
  \/ \E name \in RegistryNames, data \in Snapshots : ImportDB(name, data)
  \/ ListDBs
  \/ \E name \in RegistryNames : DeleteDB(name)
  \/ ClearCache

SpecRegistry == InitRegistry /\ [][NextRegistry]_vars

\* ------------------------------------------------------------------------
\* SpecUpsert: records inserted with text and replaced by upsert, without
\* metadata or with other metadata, before and after the store has an index,
\* which is configured with k1 not given or given as 2
\* ------------------------------------------------------------------------

InitUpsert ==
  Constructed([dimensions |-> 1, distance |-> "euclidean", indexType |-> NotGiven])

NextUpsert ==
  \/ \E id \in Ids : Insert(id, <<2>>, MetaDog)
  \/ \E id \in Ids, m \in {Undef, MetaFox} : Upsert(id, <<3>>, m)
  \/ \E k1 \in {Undef, Num(Rat(2, 1))} :
       ConfigureBM25(<<TagsKey, TitleKey>>, k1, Undef)

SpecUpsert == InitUpsert /\ [][NextUpsert]_vars

\* ------------------------------------------------------------------------
\* SpecKeyword: keywordSearch with and without a filter on a store of three
\* records whose titles rank them differently and whose n passes the filter
\* {n: 5} or not
\* ------------------------------------------------------------------------

\* {title: t, n: n} for the titles "fox", "fox dog" and "dog" and n 5 and 10
KeywordMetas ==
  {Obj(TitleKey :> Str(t) @@ NKey :> Num(n)) :
     t \in {<<"f", "o", "x">>, <<"f", "o", "x", " ", "d", "o", "g">>,
            <<"d", "o", "g">>},
     n \in {5, 10}}

\* the state after new VectorDB({dimensions: 1}) and the insert of a, b and
\* c, in this order, each with one of the metadata
InitKeyword ==
  \E ma \in KeywordMetas, mb \in KeywordMetas, mc \in KeywordMetas :
    LET o == [dimensions |-> 1, distance |-> NotGiven, indexType |-> NotGiven]
        r == insert(insert(insert(NewVectorDB(o), "a", <<1>>, ma).db,
                           "b", <<1>>, mb).db,
                    "c", <<1>>, mc)
    IN /\ options = o
       /\ dimensions = r.db.dimensions
       /\ distance = r.db.distance
       /\ indexType = r.db.indexType
       /\ vectors = r.db.vectors
       /\ bm25Index = r.db.bm25Index
       /\ bm25TextFields = r.db.bm25TextFields
       /\ dbCache = <<>>
       /\ heap = EmptyHeap
       /\ ret = [op |-> "insert",
                 args |-> [id |-> "c", vector |-> <<1>>, metadata |-> mc],
                 error |-> r.error, value |-> r.value]

NextKeyword ==
  \/ \E k \in 0..MaxK, f \in {Undef, FilterN5} :
       KeywordSearch(QueryFox, k, Arr(<<TitleKey>>), f, Undef, Undef)
  \/ \E id \in Ids : Delete(id)

SpecKeyword == InitKeyword /\ [][NextKeyword]_vars

\* ------------------------------------------------------------------------
\* Properties of the store under every operation (Spec)
\* ------------------------------------------------------------------------

\* C1: a call of insert, upsert or search with a vector whose length is not
\* the dimensions of the store fails with the dimension-mismatch error, and
\* the records and the BM25 index (its documents, document frequencies and
\* total length, and whether there is one) are after the call what they
\* were before it.
C1_DimensionMismatchLeavesStore ==
  [][(\/ /\ ret'.op \in {"insert", "upsert"}
         /\ Len(ret'.args.vector) # dimensions
      \/ /\ ret'.op = "search"
         /\ Len(ret'.args.query) # dimensions)
     => /\ ret'.error = "DimensionMismatch"
        /\ UNCHANGED store]_vars

\* C1, its case: an upsert with a vector of the wrong length, of an id the
\* store holds, on a store with a BM25 index
C1_Witness ==
  /\ ret.op = "upsert"
  /\ Len(ret.args.vector) # dimensions
  /\ Has(Self, ret.args.id)
  /\ bm25Index.t # "null"
  /\ Len(bm25Index.documents) > 0

\* C2, as stated: insert of an id the store holds, whatever the vector,
\* fails with the duplicate-id error and leaves the records and the BM25
\* index as they were; upsert of an id the store holds, with a vector of
\* the right length, does not fail.
C2_AsStated ==
  [][/\ (ret'.op = "insert" /\ Has(Self, ret'.args.id))
        => (ret'.error = "DuplicateId" /\ UNCHANGED <<vectors, bm25Index>>)
     /\ (/\ ret'.op = "upsert"
         /\ Has(Self, ret'.args.id)
         /\ Len(ret'.args.vector) = dimensions)
        => ret'.error = "none"]_vars

\* C2, amended: insert of an id the store holds, with a vector of the right
\* length, fails with the duplicate-id error and leaves the records (their
\* vectors, metadata and norms, and their number) and the BM25 index as
\* they were; with a vector of the wrong length the failure is the
\* dimension mismatch of C1.  Upsert of an id the store holds, with a vector
\* of the right length, does not fail.
C2_DuplicateIdLeavesStore ==
  [][/\ (/\ ret'.op = "insert"
         /\ Has(Self, ret'.args.id)
         /\ Len(ret'.args.vector) = dimensions)
        => (ret'.error = "DuplicateId" /\ UNCHANGED <<vectors, bm25Index>>)
     /\ (/\ ret'.op = "insert"
         /\ Has(Self, ret'.args.id)
         /\ Len(ret'.args.vector) # dimensions)
        => (ret'.error = "DimensionMismatch" /\ UNCHANGED <<vectors, bm25Index>>)
     /\ (/\ ret'.op = "upsert"
         /\ Has(Self, ret'.args.id)
         /\ Len(ret'.args.vector) = dimensions)
        => ret'.error = "none"]_vars

\* C2, its case: an insert that failed with the duplicate-id error on a
\* store of two records with a BM25 index
C2_Witness ==
  /\ ret.op = "insert"
  /\ ret.error = "DuplicateId"
  /\ Len(vectors) >= 2
  /\ bm25Index.t # "null"

\* the ids of the documents of the BM25 index, and of the records
DocumentIds == {bm25Index.documents[i].id : i \in DOMAIN bm25Index.documents}

RecordIds == {vectors[i].id : i \in DOMAIN vectors}

\* C3: when the store has a BM25 index, the ids of its documents are the
\* ids of the records, each once, and a record without metadata, which has
\* no text, has a document of length 0 with no term.
C3_IndexHoldsTheRecords ==
  bm25Index.t # "null" =>
    /\ DocumentIds = RecordIds
    /\ Len(bm25Index.documents) = Cardinality(DocumentIds)
    /\ Len(vectors) = Cardinality(RecordIds)
    /\ \A i \in DOMAIN vectors :
         vectors[i].metadata.t = "null" =>
           \E j \in DOMAIN bm25Index.documents :
             /\ bm25Index.documents[j].id = vectors[i].id
             /\ bm25Index.documents[j].length = 0

\* C3, its case: an index configured over a store that already held two
\* records, one of them without text
C3_Witness ==
  /\ ret.op \in {"configureBM25", "keywordSearch", "hybridSearch"}
  /\ bm25Index.t # "null"
  /\ Len(vectors) >= 2
  /\ \E i \in DOMAIN vectors : vectors[i].metadata.t = "null"
  /\ \E i \in DOMAIN vectors : vectors[i].metadata.t = "object"

\* C5: every stored vector has the length the store was constructed with,
\* and the dimensions and the metric of the store are those given to the
\* constructor (the metric cosine when none was given).
C5_DimensionsAndMetricFixed ==
  /\ dimensions = options.dimensions
  /\ distance = (IF options.distance = NotGiven THEN "cosine" ELSE options.distance)
  /\ \A i \in DOMAIN vectors : Len(vectors[i].vector) = dimensions

\* C5, its case: a store with a metric given, holding two records, the last
\* call an upsert that replaced one of them
C5_Witness ==
  /\ ret.op = "upsert"
  /\ ret.error = "none"
  /\ options.distance = "euclidean"
  /\ Len(vectors) >= 2
  /\ vectors[1].id = ret.args.id

\* ------------------------------------------------------------------------
\* Properties of a BM25 index (SpecBM25)
\* ------------------------------------------------------------------------

\* the terms of the documents of the index
IndexedTerms ==
  UNION {DOMAIN bm25Index.documents[i].termFrequencies :
           i \in DOMAIN bm25Index.documents}

\* the number of documents whose term-frequency map holds the term
DocumentsWith(term) ==
  Cardinality({i \in DOMAIN bm25Index.documents :
                 term \in DOMAIN bm25Index.documents[i].termFrequencies})

RECURSIVE SumOfLengths(_)
SumOfLengths(documents) ==
  IF documents = <<>> THEN 0
  ELSE Head(documents).length + SumOfLengths(Tail(documents))

\* C4: documentFrequencies has an entry exactly for the terms of the indexed
\* documents, the entry of a term is the number of documents that hold the
\* term, and totalDocLength is the sum of the lengths of the documents.
C4_FrequenciesCountDocuments ==
  /\ DOMAIN bm25Index.documentFrequencies = IndexedTerms
  /\ \A term \in IndexedTerms :
       bm25Index.documentFrequencies[term] = DocumentsWith(term)
  /\ bm25Index.totalDocLength = SumOfLengths(bm25Index.documents)

\* C4, its case: a document was removed or replaced and the index still
\* holds a document, with a term the removed document had shared
C4_Witness ==
  /\ ret.op \in {"removeDocument", "updateDocument"}
  /\ Len(bm25Index.documents) >= 1
  /\ bm25Index.totalDocLength > 0
  /\ \E term \in IndexedTerms : bm25Index.documentFrequencies[term] = 1

\* ------------------------------------------------------------------------
\* Properties of search (SpecSearch)
\* ------------------------------------------------------------------------

\* the stored records that pass the filter and the threshold of the last
\* search
Matching ==
  {i \in DOMAIN vectors :
     /\ ret.args.filter.t = "undefined"
        \/ evaluateFilter(vectors[i].metadata, ret.args.filter) = "true"
     /\ ~SimilarityBelow(
           similarityOf(distance,
             calculateDistance(distance, ret.args.query, vectors[i].vector,
                               Undef, Undef)),
           IF ret.args.minSimilarity.t = "undefined" THEN Rat(0, 1)
           ELSE ret.args.minSimilarity.v)}

\* the results of the last search are in non-decreasing order of distance,
\* no id twice, each the id of a stored record that passes the filter
SearchResultsInOrder ==
  /\ \A i, j \in DOMAIN ret.value :
       i < j => /\ CompareReal(ret.value[i].distance, ret.value[j].distance) <= 0
                /\ ret.value[i].id # ret.value[j].id
  /\ \A i \in DOMAIN ret.value :
       \E j \in Matching : vectors[j].id = ret.value[i].id

\* C6, as stated: a search with a query of the right length, for every k,
\* returns at most min(k, number of records that pass the filter and the
\* threshold) results (none when k is negative), in non-decreasing order of
\* distance, no id twice, each a stored record that passes the filter; on
\* an empty store it returns the empty sequence and does not fail.
C6_AsStated ==
  (ret.op = "search" /\ Len(ret.args.query) = dimensions) =>
    /\ ret.error = "none"
    /\ SearchResultsInOrder
    /\ Len(ret.value) <= (IF ret.args.k < 0 THEN 0 ELSE ret.args.k)
    /\ Len(ret.value) <= Cardinality(Matching)
    /\ Len(vectors) = 0 => ret.value = <<>>

\* C6 for a k that is not negative: the same, and then it holds
C6_ForNaturalK ==
  (ret.op = "search" /\ Len(ret.args.query) = dimensions /\ ret.args.k >= 0) =>
    /\ ret.error = "none"
    /\ SearchResultsInOrder
    /\ Len(ret.value) <= ret.args.k
    /\ Len(ret.value) <= Cardinality(Matching)
    /\ Len(vectors) = 0 => ret.value = <<>>

\* C6 for a negative k: search returns every matching record but the last
\* -k in order of distance
C6_NegativeKDropsLast ==
  (ret.op = "search" /\ Len(ret.args.query) = dimensions /\ ret.args.k < 0) =>
    /\ ret.error = "none"
    /\ SearchResultsInOrder
    /\ Len(ret.value) = (IF Cardinality(Matching) + ret.args.k > 0
                         THEN Cardinality(Matching) + ret.args.k ELSE 0)

\* ------------------------------------------------------------------------
\* Properties of filters (SpecFilter)
\* ------------------------------------------------------------------------

FieldN(metadata) ==
  IF metadata.t = "object" /\ NKey \in DOMAIN metadata.v
  THEN metadata.v[NKey]
  ELSE Undef

\* C8 as stated: no malformed filter makes evaluateFilter or search fail, and
\* $gt, $gte, $lt and $lte of a field that is not a number against the
\* operand 7 are false.
C8_AsStated ==
  /\ ret.op \in {"evaluateFilter", "search"}
       /\ ret.args.filter \in MalformedFilters => ret.error = "none"
  /\ ret.op = "evaluateFilter"
       /\ ret.args.filter \in {Condition(o, Num(7)) : o \in OrderingOperators}
       /\ FieldN(ret.args.metadata).t # "number"
       => ret.value = Bool(FALSE)

\* C8, what the code does with a malformed filter: an operator that does not
\* exist is ignored, $in and $contains with an operand of the wrong type are
\* false, and a $and or $or that is no list, or holds something that is not
\* an object, fails with a TypeError unless the sub-filter is a number (on
\* which there is nothing to evaluate).
C8_MalformedFilterOutcome ==
  ret.op = "evaluateFilter" =>
    /\ ret.args.filter = Condition(<<"$", "f", "o", "o">>, Num(1)) =>
         ret.value = Bool(TRUE)
    /\ ret.args.filter \in {Condition(<<"$", "i", "n">>, Num(5)),
                            Condition(<<"$", "c", "o", "n", "t", "a", "i",
                                        "n", "s">>, Num(5))} =>
         ret.value = Bool(FALSE)
    /\ ret.args.filter \in {Obj(AndKey :> Num(5)),
                            Obj(OrKey :> Obj(NKey :> Num(5))),
                            Obj(AndKey :> Arr(<<Null>>))} =>
         ret.error = "TypeError"

\* C8, what the code does with an ordering operator whose field and operand
\* differ in type: it compares their string forms, so the strings "5" and
\* "abc" and null are ordered against 7 as "5" < "7" < "abc" < "null"; a
\* field that is absent satisfies no ordering operator.
C8_MixedTypesCompareAsStrings ==
  ret.op = "evaluateFilter" =>
    \A o \in OrderingOperators :
      ret.args.filter = Condition(o, Num(7)) =>
        LET n == FieldN(ret.args.metadata)
            above == o \in {<<"$", "g", "t">>, <<"$", "g", "t", "e">>}
        IN ret.value =
             Bool(IF n.t = "undefined" THEN FALSE
                  ELSE IF n \in {Num(5), Str(<<"5">>)} THEN ~above
                  ELSE above)

\* ------------------------------------------------------------------------
\* Properties of hybridSearch (SpecHybrid)
\* ------------------------------------------------------------------------

\* the input of the mode of these options is missing: no query vector in
\* vector mode, no keywords (none, or the empty string) in keyword mode,
\* either of them in hybrid mode
InputMissing(o) ==
  LET noVector == o.queryVector.t = "undefined"
      noKeywords == o.keywords.t = "undefined" \/ o.keywords = Str(<<>>)
  IN \/ o.mode = "vector" /\ noVector
     \/ o.mode = "keyword" /\ noKeywords
     \/ o.mode = "hybrid" /\ (noVector \/ noKeywords)

\* C9: a hybridSearch whose mode lacks its input fails with the
\* missing-input error, runs neither search nor keywordSearch, and leaves
\* every field of the store as it was, the BM25 index and its text fields
\* included.
C9_MissingInputRunsNothing ==
  [][(ret'.op = "hybridSearch" /\ InputMissing(ret'.args)) =>
       /\ ret'.error = "MissingInput"
       /\ ret'.calls = <<>>
       /\ UNCHANGED store]_vars

\* C9: a hybrid-mode hybridSearch with a query vector and no keywords has
\* failed on a store that holds a record and a BM25 index.
C9_Witness ==
  /\ ret.op = "hybridSearch"
  /\ ret.args.mode = "hybrid"
  /\ ret.args.queryVector = Arr(<<1, 0>>)
  /\ ret.args.keywords = Undef
  /\ ret.error = "MissingInput"
  /\ Len(vectors) > 0
  /\ bm25Index.t # "null"

\* the case of C10: a keyword-mode hybridSearch with keywords and without
\* text fields is the call of this step, on a store that had no text fields
\* configured
NoFieldsAnywhere ==
  /\ ret'.op = "hybridSearch"
  /\ ret'.args.mode = "keyword"
  /\ ret'.args.keywords = Str(QueryFox)
  /\ ret'.args.textFields = Undef
  /\ bm25TextFields = <<>>

\* C10 as stated: a keyword-mode hybridSearch without text fields, on a
\* store with none configured, fails with the missing-input error.
C10_AsStated ==
  [][NoFieldsAnywhere => ret'.error = "MissingInput"]_vars

\* C10, amended: that call does not fail. It runs keywordSearch over the
\* default text fields content, text and title, which configures the BM25
\* index of the store over them, and returns the best k records with the
\* keyword in one of these fields. With the text fields given as the empty
\* list the call fails with the missing-input error of keywordSearch and
\* the store is unchanged.
C10_DefaultTextFields ==
  [][/\ NoFieldsAnywhere =>
          /\ ret'.error = "none"
          /\ ret'.calls = <<"keywordSearch">>
          /\ bm25TextFields' = DefaultTextFields
          /\ bm25Index'.t # "null"
          /\ Len(ret'.value) = (IF Len(vectors) < ret'.args.k THEN Len(vectors)
                                ELSE ret'.args.k)
          /\ UNCHANGED <<dimensions, distance, indexType, vectors>>
     /\ (/\ ret'.op = "hybridSearch"
         /\ ret'.args.mode = "keyword"
         /\ ret'.args.keywords = Str(QueryFox)
         /\ ret'.args.textFields = Arr(<<>>)) =>
          /\ ret'.error = "MissingInput"
          /\ ret'.calls = <<"keywordSearch">>
          /\ UNCHANGED store]_vars

\* C10: a keyword-mode hybridSearch without text fields has returned a
\* record, and the store, with no text fields configured before, now has
\* the default ones.
C10_Witness ==
  /\ ret.op = "hybridSearch"
  /\ ret.args.mode = "keyword"
  /\ ret.args.textFields = Undef
  /\ ret.error = "none"
  /\ Len(ret.value) = 1
  /\ bm25TextFields = DefaultTextFields

\* ------------------------------------------------------------------------
\* Properties of export and import (SpecExport)
\* ------------------------------------------------------------------------

\* the queries of the keyword searches that are compared: a term of every
\* title, a term of one record's tags, two terms, and a term of no record
ExportQueries ==
  {QueryFox, <<"r", "e", "d">>, <<"d", "o", "g", " ", "f", "o", "x">>,
   <<"c", "a", "t">>}

\* the error and the ids, in order, of keywordSearch(query, k) on this store
KeywordIds(db, query, k) ==
  LET Ids_(r) == [error |-> r.error,
                  ids |-> IF r.error = "none"
                          THEN [i \in DOMAIN r.value |-> r.value[i].id]
                          ELSE <<>>]
  IN Ids_(keywordSearch(db, query, k, Undef, Undef, Undef, Undef))

\* C11: the store that import makes of an export has the records of the
\* exported store (id, vector and metadata, in the same order), its
\* dimensions and its metric, and, where the exported store had a BM25
\* index, every keyword search returns the same ids in the same order on
\* both.
C11_ImportOfExport ==
  [][ret'.op = "import" =>
       /\ Len(vectors') = Len(vectors)
       /\ \A i \in DOMAIN vectors :
            /\ vectors'[i].id = vectors[i].id
            /\ vectors'[i].vector = vectors[i].vector
            /\ vectors'[i].metadata = vectors[i].metadata
       /\ dimensions' = dimensions
       /\ distance' = distance
       /\ bm25Index.t # "null" =>
            /\ bm25Index'.t # "null"
            /\ \A q \in ExportQueries, k \in 1..MaxK :
                 KeywordIds(Self', q, k) = KeywordIds(Self, q, k)]_vars

\* C11: a store of two records with a BM25 index that finds both for a
\* query is the import of an export.
C11_Witness ==
  /\ ret.op = "import"
  /\ Len(vectors) = 2
  /\ bm25Index.t # "null"
  /\ Len(KeywordIds(Self, QueryFox, 2).ids) = 2

\* ------------------------------------------------------------------------
\* Properties of the search modes (SpecRank)
\* ------------------------------------------------------------------------

\* the ids of a list of results, in order
IdsOf(results) == [i \in DOMAIN results |-> results[i].id]

\* the last call is a hybrid-mode hybridSearch with the weighted fusion and
\* this alpha that did not fail
WeightedWith(alpha) ==
  /\ ret.op = "hybridSearch"
  /\ ret.args.mode = "hybrid"
  /\ ret.args.fusionMethod = "weighted"
  /\ ret.args.alpha = Num(Rat(alpha, 1))
  /\ ret.error = "none"

\* the ids hybridSearch returns on the store for the options of the last
\* call in another mode
IdsInMode(mode) == IdsOf(hybridSearch(Self, [ret.args EXCEPT !.mode = mode]).value)

\* C12 as stated: the weighted fusion with alpha = 1 returns the ids of the
\* vector-mode search with the same options, in the same order, and with
\* alpha = 0 the ids of the keyword-mode search.
C12_AsStated ==
  /\ WeightedWith(1) => IdsOf(ret.value) = IdsInMode("vector")
  /\ WeightedWith(0) => IdsOf(ret.value) = IdsInMode("keyword")

\* C12, what holds on a store with the cosine metric: with alpha = 1 the
\* ids of the vector-mode search are the first of the result, in the same
\* order; ids that only the keyword search found may follow them.
C12_VectorResultsFirst ==
  WeightedWith(1) =>
    /\ Len(IdsInMode("vector")) <= Len(ret.value)
    /\ SubSeq(IdsOf(ret.value), 1, Len(IdsInMode("vector"))) = IdsInMode("vector")

\* the similarity of the stored record id to the query vector of the last
\* call is below the minimum similarity of that call
BelowThreshold(id) ==
  SimilarityBelow(
    similarityOf(distance,
      calculateDistance(distance, ret.args.queryVector.v, Stored(Self, id).vector,
                        Undef, Undef)),
    ret.args.minSimilarity.v)

\* the last call is a hybridSearch in this mode with a minimum similarity
\* that did not fail
ThresholdIn(mode) ==
  /\ ret.op = "hybridSearch"
  /\ ret.args.mode = mode
  /\ ret.args.minSimilarity.t = "number"
  /\ ret.error = "none"

\* C14 as stated: with a minimum similarity given, in vector mode and in
\* hybrid mode every returned id is a record whose similarity to the query
\* vector is at least the minimum.
C14_AsStated ==
  (ThresholdIn("vector") \/ ThresholdIn("hybrid")) =>
    \A i \in DOMAIN ret.value : ~BelowThreshold(ret.value[i].id)

\* C14, what holds: in vector mode every returned id is at or above the
\* minimum; in hybrid mode every returned id that is below it was found by
\* the keyword search only.
C14_ThresholdOnVectorList ==
  /\ ThresholdIn("vector") =>
       \A i \in DOMAIN ret.value : ~BelowThreshold(ret.value[i].id)
  /\ ThresholdIn("hybrid") =>
       \A i \in DOMAIN ret.value :
         BelowThreshold(ret.value[i].id) =>
           /\ ret.value[i].vectorRank.t = "undefined"
           /\ ret.value[i].keywordRank.t = "number"

\* the store with its records and no BM25 index, as after the inserts alone
Fresh(db) == [db EXCEPT !.bm25Index = Null, !.bm25TextFields = <<>>]

\* error and value of an outcome
Outcome(r) == [error |-> r.error, value |-> IF r.error = "none" THEN r.value ELSE <<>>]

EffectiveFields(o) ==
  IF o.textFields.t # "undefined" THEN o.textFields.v
  ELSE IF Len(bm25TextFields) > 0 THEN bm25TextFields
  ELSE DefaultTextFields

\* the options with the text fields, k1 and b that the call uses on the
\* store: an index over the same text fields keeps its k1 and b
EffectiveOptions(o) ==
  IF bm25Index.t # "null" /\ bm25TextFields = EffectiveFields(o)
  THEN [o EXCEPT !.textFields = Arr(EffectiveFields(o)),
                 !.bm25K1 = Num(bm25Index.k1), !.bm25B = Num(bm25Index.b)]
  ELSE [o EXCEPT !.textFields = Arr(EffectiveFields(o))]

ConstantUsed ==
  IF ret.args.rrfConstant.t = "undefined" THEN 60 ELSE ret.args.rrfConstant.v

\* 1 / (c + rank) for the id in a list, its rank counted from 1, and 0 for
\* an id the list does not have
Reciprocal(results, id) ==
  IF \E i \in DOMAIN results : results[i].id = id
  THEN Rat(1, ConstantUsed + (CHOOSE i \in DOMAIN results : results[i].id = id))
  ELSE Rat(0, 1)

\* the score an id is to have after the last fusion
ExpectedScore(id) ==
  AddRat(Reciprocal(ret.args.vectorResults, id),
         Reciprocal(ret.args.keywordResults, id))

\* the ids of the two lists of the last fusion
FusedIds ==
  {ret.args.vectorResults[i].id : i \in DOMAIN ret.args.vectorResults}
  \cup {ret.args.keywordResults[i].id : i \in DOMAIN ret.args.keywordResults}

\* C15: after Reciprocal Rank Fusion every result is an id of one of the
\* lists, no id twice, with the score 1/(c + vectorRank) + 1/(c +
\* keywordRank), a list without the id adding 0, the ranks from 1 and c = 60
\* when not given; an id first in both lists scores 2/(c + 1), more than
\* the 1/(c + 1) of an id first in one list and absent from the other; the
\* results are in non-increasing order of score; and for k >= 0 they are
\* the min(k, number of ids) ids of highest score.
C15_ReciprocalRankFusion ==
  ret.op = "reciprocalRankFusion" =>
    /\ \A i \in DOMAIN ret.value :
         /\ ret.value[i].id \in FusedIds
         /\ CompareRat(ret.value[i].score, ExpectedScore(ret.value[i].id)) = 0
         /\ \A j \in DOMAIN ret.value :
              /\ i < j => CompareRat(ret.value[i].score, ret.value[j].score) >= 0
              /\ i # j => ret.value[i].id # ret.value[j].id
         /\ (ret.value[i].vectorRank = Num(1) /\ ret.value[i].keywordRank = Num(1)) =>
              /\ CompareRat(ret.value[i].score, Rat(2, ConstantUsed + 1)) = 0
              /\ CompareRat(ret.value[i].score, Rat(1, ConstantUsed + 1)) > 0
         /\ (/\ Num(1) \in {ret.value[i].vectorRank, ret.value[i].keywordRank}
             /\ Undef \in {ret.value[i].vectorRank, ret.value[i].keywordRank}) =>
              CompareRat(ret.value[i].score, Rat(1, ConstantUsed + 1)) = 0
    /\ ret.args.k >= 0 =>
         /\ Len(ret.value) = (IF ret.args.k < Cardinality(FusedIds)
                              THEN ret.args.k ELSE Cardinality(FusedIds))
         /\ \A id \in FusedIds \ {ret.value[i].id : i \in DOMAIN ret.value} :
              \A i \in DOMAIN ret.value :
                CompareRat(ExpectedScore(id), ret.value[i].score) <= 0

\* C15: two lists of two ids each, with the same id first in both and
\* different ids second, have been fused with the default constant, and the
\* id that is first in both comes first of three.
C15_Witness ==
  /\ ret.op = "reciprocalRankFusion"
  /\ ret.args.rrfConstant = Undef
  /\ Len(ret.args.vectorResults) = 2
  /\ Len(ret.args.keywordResults) = 2
  /\ ret.args.vectorResults[1].id = ret.args.keywordResults[1].id
  /\ ret.args.vectorResults[2].id # ret.args.keywordResults[2].id
  /\ Len(ret.value) = 3
  /\ ret.value[1].id = ret.args.vectorResults[1].id


\* ------------------------------------------------------------------------
\* C16  after insert(id, v, m), get(id) returns a vector equal to v and the
\*      metadata m (null when omitted), also after the caller has written
\*      into the array it passed to insert or into an array returned by an
\*      earlier get(id)
\* ------------------------------------------------------------------------

\* the caller holds an array obtained by `from` for id and has written into it
Written(from, id) ==
  \E i \in DOMAIN heap.caller :
    /\ heap.caller[i].from = from
    /\ heap.caller[i].id = id
    /\ heap.caller[i].value # AliasRecords[id].vector

C16_GetReturnsWhatWasInserted ==
  \A id \in DOMAIN AliasRecords :
    Has(Self, id) =>
      /\ get(Self, id).error = "none"
      /\ get(Self, id).value.vector = AliasRecords[id].vector
      /\ get(Self, id).value.metadata =
           (IF AliasRecords[id].metadata = Undef THEN Null
            ELSE AliasRecords[id].metadata)

\* both the array passed to insert and an array returned by get were written
\* into, and get was called again afterwards
C16_Witness ==
  /\ Written("insert", "a")
  /\ Written("get", "a")
  /\ ret.op = "get"
  /\ ret.args.id = "a"
  /\ ret.value # Null
  /\ ret.value.vector = << 1, 2 >>


\* ------------------------------------------------------------------------
\* C17  upsert(id, v, m) on an id that is stored replaces the record: get(id)
\*      returns v and m (null when m is omitted), the number of records and
\*      every other record are unchanged, and with a BM25 index the index has
\*      one document for id, built from m alone, as many documents as before,
\*      and no term of the old document that m lacks still finds id
\* ------------------------------------------------------------------------

\* the document addDocument builds for id from metadata alone
DocumentOf(index, id, metadata) ==
  LET Built(tokens) ==
        [id |-> id, length |-> Len(tokens),
         termFrequencies |-> getTermFrequencies(tokens),
         metadata |-> IF Truthy(metadata) THEN metadata ELSE Undef]
  IN Built(tokenize(extractTextFromMetadata(metadata, index.textFields),
                    index.tokenizerOptions))

\* the terms of the document of id that the document built from metadata lacks
OldTermsOnly(index, id, metadata) ==
  DOMAIN GetDocument(index, id).termFrequencies
    \ DOMAIN DocumentOf(index, id, metadata).termFrequencies

\* the index search for term, with room for every document, finds id
TermFinds(index, term, id) ==
  LET Among(results) == \E i \in DOMAIN results : results[i].id = id
  IN Among(indexSearch(index, term, Len(index.documents)))

\* upsert(id, vector, metadata) turned the store before into the store after
Replaced(before, after, id, vector, metadata) ==
  /\ get(after, id).value =
       [vector |-> vector, metadata |-> IF Truthy(metadata) THEN metadata ELSE Null]
  /\ Len(after.vectors) = Len(before.vectors)
  /\ \A i \in DOMAIN before.vectors :
       before.vectors[i].id # id => after.vectors[i] = before.vectors[i]
  /\ before.bm25Index.t # "null" =>
       /\ after.bm25Index.t # "null"
       /\ Cardinality({i \in DOMAIN after.bm25Index.documents :
                         after.bm25Index.documents[i].id = id}) = 1
       /\ GetDocument(after.bm25Index, id) = DocumentOf(before.bm25Index, id, metadata)
       /\ Len(after.bm25Index.documents) = Len(before.bm25Index.documents)
       /\ \A term \in OldTermsOnly(before.bm25Index, id, metadata) :
            ~TermFinds(after.bm25Index, term, id)

C17_UpsertReplacesTheRecord ==
  [][(ret'.op = "upsert" /\ ret'.error = "none" /\ Has(Self, ret'.args.id)) =>
       Replaced(Self, Self', ret'.args.id, ret'.args.vector, ret'.args.metadata)]_vars

\* a record with text, indexed beside another record, was replaced by upsert
\* without metadata or with other metadata
C17_Witness ==
  /\ ret.op = "upsert"
  /\ ret.error = "none"
  /\ bm25Index.t # "null"
  /\ Len(vectors) = 2
  /\ \E i \in DOMAIN vectors :
       /\ vectors[i].id = ret.args.id
       /\ vectors[i].vector = <<3>>
       /\ i = 1
  /\ ret.args.metadata = MetaFox
  /\ \E j \in DOMAIN bm25Index.documents :
       /\ bm25Index.documents[j].id # ret.args.id
       /\ bm25Index.documents[j].length > 0
       /\ j = 1


\* ------------------------------------------------------------------------
\* C18  delete(id) returns true exactly when id was stored; afterwards
\*      contains(id) is false, get(id) is null and no vector, keyword or
\*      hybrid search returns id; the other records are unchanged; delete of
\*      an id that is not stored returns false and changes nothing.  A search
\*      returns stored ids only, so a deleted id stays out until it is stored
\*      again.
\* ------------------------------------------------------------------------

\* the result r of a search names id
Names(r, id) ==
  /\ r.error = "none"
  /\ \E i \in DOMAIN r.value : r.value[i].id = id

\* some vector, keyword or hybrid search on db, with room for every record,
\* returns id
SomeSearchReturns(db, id) ==
  \/ \E q \in Vectors :
       Names(search(db, q, MaxVectors + 1, Undef, Undef), id)
  \/ \E f \in {Undef, Arr(<<TitleKey>>), Arr(<<TagsKey, TitleKey>>)} :
       Names(keywordSearch(db, QueryFox, MaxVectors + 1, f, Undef, Undef, Undef), id)
  \/ \E o \in SearchInputs :
       Names(hybridSearch(db, [o EXCEPT !.k = MaxVectors + 1]), id)

\* delete(id) turned the store before into the store after and returned value
Deleted(before, after, id, value) ==
  /\ value = Has(before, id)
  /\ contains(after, id).value = FALSE
  /\ get(after, id).value = Null
  /\ ~SomeSearchReturns(after, id)
  /\ after.vectors =
       SelectIndices(before.vectors,
                     [i \in DOMAIN before.vectors |-> before.vectors[i].id # id])
  /\ ~Has(before, id) => after = before

C18_DeleteRemovesTheRecord ==
  [][ret'.op = "delete" => Deleted(Self, Self', ret'.args.id, ret'.value)]_vars

\* every id a search returns is the id of a stored record
C18_SearchReturnsStoredIds ==
  (ret.op \in {"search", "keywordSearch", "hybridSearch"} /\ ret.error = "none") =>
    \A i \in DOMAIN ret.value : Has(Self, ret.value[i].id)

\* a record with text was deleted from a store with an index that holds
\* another record still
C18_Witness ==
  /\ ret.op = "delete"
  /\ ret.value = TRUE
  /\ bm25Index.t # "null"
  /\ Len(vectors) = 1
  /\ vectors[1].metadata.t = "object"
  /\ SomeSearchReturns(Self, vectors[1].id)


\* ------------------------------------------------------------------------
\* C19  the index search returns, with a score above 0, documents that hold
\*      a token of the query and no other document, and all of them when k
\*      is at least their number; a document that was removed is not in the
\*      index and so is not returned
\* ------------------------------------------------------------------------

\* the ids of the documents of the index that hold a token of the query
HoldingAToken(index, query) ==
  {index.documents[i].id :
     i \in {j \in DOMAIN index.documents :
              \E t \in Range(tokenize(query, index.tokenizerOptions)) :
                t \in DOMAIN index.documents[j].termFrequencies}}

C19_SearchReturnsTheMatchingDocuments ==
  ret.op = "search" =>
    /\ \A i \in DOMAIN ret.value :
         /\ ret.value[i].id \in HoldingAToken(bm25Index, ret.args.query)
         /\ ret.value[i].score > 0
    /\ \A i, j \in DOMAIN ret.value : ret.value[i].id = ret.value[j].id => i = j
    /\ ret.args.k >= Cardinality(HoldingAToken(bm25Index, ret.args.query)) =>
         {ret.value[i].id : i \in DOMAIN ret.value}
           = HoldingAToken(bm25Index, ret.args.query)

\* a search returned one of two documents; the other holds no token of the
\* query
C19_Witness ==
  /\ ret.op = "search"
  /\ Len(bm25Index.documents) = 2
  /\ \A i \in DOMAIN bm25Index.documents : bm25Index.documents[i].length > 0
  /\ Len(ret.value) = 1
  /\ ret.args.k = 2


\* ------------------------------------------------------------------------
\* C20  a filter {"a.b": value} with a plain value matches exactly the
\*      metadata that has an object under a whose b is the value, of the same
\*      type: {a: {b: 5}} for 5, not {a: {b: "5"}}, not {a: 5}, not metadata
\*      that is null
\* ------------------------------------------------------------------------

\* metadata has an object under a, and its b is the number or string value
HasUnderAB(metadata, value) ==
  /\ metadata.t = "object"
  /\ <<"a">> \in DOMAIN metadata.v
  /\ metadata.v[<<"a">>].t = "object"
  /\ <<"b">> \in DOMAIN metadata.v[<<"a">>].v
  /\ metadata.v[<<"a">>].v[<<"b">>].t = value.t
  /\ metadata.v[<<"a">>].v[<<"b">>].v = value.v

C20_DotPathStrictEquality ==
  /\ (ret.op = "evaluateFilter" /\ ret.args.filter \in DotFilters) =>
       /\ ret.error = "none"
       /\ ret.value =
            Bool(HasUnderAB(ret.args.metadata, ret.args.filter.v[<<"a", ".", "b">>]))
  /\ (ret.op = "search" /\ ret.args.filter \in DotFilters) =>
       /\ ret.error = "none"
       /\ Len(ret.value) = 1
            <=> HasUnderAB(vectors[1].metadata, ret.args.filter.v[<<"a", ".", "b">>])

\* {"a.b": 5} was evaluated on {a: {b: 5}} and matched
C20_Witness ==
  /\ ret.op = "evaluateFilter"
  /\ ret.args.filter = Obj(<<"a", ".", "b">> :> Num(5))
  /\ ret.args.metadata = MetaA(MetaB(Num(5)))
  /\ ret.value = Bool(TRUE)


\* ------------------------------------------------------------------------
\* C21  an operator object passes exactly when each recognised operator in
\*      it passes, whatever other keys it has; $gt, $gte, $lt and $lte fail
\*      on an absent field; $in and $nin fail on an operand that is no list;
\*      $exists: true passes exactly on a present field and $exists: false
\*      exactly on an absent one; the field conditions, the $and clause and
\*      the $or clause of a filter must all pass
\* ------------------------------------------------------------------------

\* the filter accepts the metadata
Accepts(metadata, filter) == evaluateFilter(metadata, filter) = "true"

\* metadata has the field n
HasN(metadata) == metadata.t = "object" /\ NKey \in DOMAIN metadata.v

\* the filter with only its keys in keep
Restricted(filter, keep) ==
  Obj([key \in DOMAIN filter.v \cap keep |-> filter.v[key]])

\* what the claim says of the operator object c on n, for a value TRUE or
\* FALSE of evaluateFilter
OperatorObjectRule(metadata, c, value) ==
  /\ value <=> \A o \in DOMAIN c.v \cap RecognisedOperators :
                 Accepts(metadata, Condition(o, c.v[o]))
  /\ (DOMAIN c.v \cap OrderingOperators # {} /\ ~HasN(metadata)) => ~value
  /\ \A o \in DOMAIN c.v \cap {<<"$", "i", "n">>, <<"$", "n", "i", "n">>} :
       c.v[o].t # "array" => ~value
  /\ c = Obj(<<"$", "e", "x", "i", "s", "t", "s">> :> Bool(TRUE))
       => (value <=> HasN(metadata))
  /\ c = Obj(<<"$", "e", "x", "i", "s", "t", "s">> :> Bool(FALSE))
       => (value <=> ~HasN(metadata))

\* what the claim says of a filter with field conditions and clauses
CombinedRule(metadata, filter, value) ==
  value <=>
    /\ Accepts(metadata, Restricted(filter, {AndKey}))
    /\ Accepts(metadata, Restricted(filter, {OrKey}))
    /\ \A field \in DOMAIN filter.v \ {AndKey, OrKey} :
         Accepts(metadata, Restricted(filter, {field}))

C21_OperatorsAndClausesAreConjoined ==
  (ret.op = "evaluateFilter" /\ ret.args.filter \in OperatorFilters) =>
    /\ ret.error = "none"
    /\ ret.args.filter \notin CombinedFilters =>
         OperatorObjectRule(ret.args.metadata, ret.args.filter.v[NKey], ret.value.v)
    /\ ret.args.filter \in CombinedFilters =>
         CombinedRule(ret.args.metadata, ret.args.filter, ret.value.v)

\* {n: {$gte: 5, $foo: 1}} accepted {n: 5}: the unknown operator was ignored
C21_Witness ==
  /\ ret.op = "evaluateFilter"
  /\ ret.args.filter =
       MetaN(Obj(<<"$", "g", "t", "e">> :> Num(5) @@ <<"$", "f", "o", "o">> :> Num(1)))
  /\ ret.args.metadata = MetaN(Num(5))
  /\ ret.value = Bool(TRUE)


\* ------------------------------------------------------------------------
\* C22  a hybrid-mode search returns at most k results, no id twice, the
\*      fused score not increasing; every id returned is stored and its
\*      metadata passes the filter; a result has the rank and the score of a
\*      source list exactly when that list holds its id, the rank counted
\*      from 1
\* ------------------------------------------------------------------------

\* the candidates hybridSearch fetches from each search
FetchK(k) == IF k * 3 > 50 THEN k * 3 ELSE 50

\* the fused score x is not below y
NotBelow(method, x, y) ==
  IF method = "weighted" THEN x >= y ELSE CompareRat(x, y) >= 0

\* result carries the rank and the score of its id in the two lists
CarriesSources(result, vectorResults, keywordResults) ==
  LET FromLists(v, kw) ==
        /\ result.vectorRank = (IF v > 0 THEN Num(v) ELSE Undef)
        /\ result.vectorSimilarity =
             (IF v > 0 THEN vectorResults[v].similarity ELSE Undef)
        /\ result.keywordRank = (IF kw > 0 THEN Num(kw) ELSE Undef)
        /\ result.keywordScore =
             (IF kw > 0 THEN Num(keywordResults[kw].score) ELSE Undef)
  IN FromLists(RankOf(vectorResults, result.id), RankOf(keywordResults, result.id))

\* results is what the claim says of hybridSearch(o) on db
HybridResultsRule(db, o, results) ==
  /\ Len(results) <= o.k
  /\ \A i, j \in DOMAIN results : results[i].id = results[j].id => i = j
  /\ \A i \in DOMAIN results :
       i > 1 => NotBelow(o.fusionMethod, results[i - 1].score, results[i].score)
  /\ \A i \in DOMAIN results :
       /\ Has(db, results[i].id)
       /\ Truthy(o.filter) =>
            evaluateFilter(Stored(db, results[i].id).metadata, o.filter) = "true"
       /\ CarriesSources(results[i], vectorCall(db, o, FetchK(o.k)).value,
                         keywordCall(db, o, FetchK(o.k)).value)

C22_HybridResults ==
  (ret.op = "hybridSearch" /\ ret.args.mode = "hybrid" /\ ret.error = "none") =>
    HybridResultsRule(Self, ret.args, ret.value)

\* a hybrid search with a filter returned an id of both lists, while a
\* stored record that matches the keywords does not pass the filter
C22_Witness ==
  /\ ret.op = "hybridSearch"
  /\ ret.args.mode = "hybrid"
  /\ ret.args.filter = FilterN5
  /\ ret.error = "none"
  /\ Has(Self, "b")
  /\ Len(ret.value) = 1
  /\ ret.value[1].vectorRank = Num(1)
  /\ ret.value[1].keywordRank = Num(1)


\* ------------------------------------------------------------------------
\* C23  keywordSearch(query, k, {filter}) returns the first k entries that
\*      pass the filter among the first 2k entries of the BM25 ranking, in
\*      the order of the ranking: at most k results, each of a stored record
\*      whose metadata passes the filter, and no entry ranked below 2k, even
\*      when fewer than k results are returned
\* ------------------------------------------------------------------------

\* the whole BM25 ranking of the documents for the query
Ranking(query) == indexSearch(bm25Index, query, Len(bm25Index.documents))

\* the record of id passes the filter, every record when none is given
Passes(id, filter) ==
  Truthy(filter) => evaluateFilter(Stored(Self, id).metadata, filter) = "true"

\* the entries of the ranking that pass the filter, among its first n
PassingAmongFirst(ranking, n, filter) ==
  SelectIndices(SubSeq(ranking, 1, IF n < Len(ranking) THEN n ELSE Len(ranking)),
                [i \in 1..(IF n < Len(ranking) THEN n ELSE Len(ranking)) |->
                   Passes(ranking[i].id, filter)])

\* results is what the claim says of the search for query with k and filter
KeywordResultsRule(results, ranking, k, filter) ==
  /\ Len(results) <= k
  /\ Len(results) <= Len(PassingAmongFirst(ranking, 2 * k, filter))
  /\ results = SubSeq(PassingAmongFirst(ranking, 2 * k, filter), 1, Len(results))
  /\ Len(results) = k \/ Len(results) = Len(PassingAmongFirst(ranking, 2 * k, filter))
  /\ \A i \in DOMAIN results :
       /\ Has(Self, results[i].id)
       /\ Passes(results[i].id, filter)
       /\ RankOf(ranking, results[i].id) \in 1..(2 * k)

C23_FilterAfterTheTopTwoK ==
  (ret.op = "keywordSearch" /\ ret.error = "none") =>
    KeywordResultsRule(ret.value, Ranking(ret.args.query), ret.args.k, ret.args.filter)

\* a search with k = 1 and a filter returned nothing, although the entry
\* ranked third passes the filter
C23_Witness ==
  /\ ret.op = "keywordSearch"
  /\ ret.error = "none"
  /\ ret.args.k = 1
  /\ ret.args.filter = FilterN5
  /\ ret.value = <<>>
  /\ Len(Ranking(ret.args.query)) = 3
  /\ Passes(Ranking(ret.args.query)[3].id, FilterN5)


\* ------------------------------------------------------------------------
\* C24  clear() removes every record and empties the documents, the
\*      document frequencies and the total length of the BM25 index when
\*      there is one; dimensions, metric, the existence of the index, its
\*      text fields, k1 and b stay; afterwards every search that does not
\*      fail returns nothing, and an insert of any id succeeds
\* ------------------------------------------------------------------------

\* r is a search that failed or found nothing
FindsNothing(r) == r.error = "none" => r.value = <<>>

\* every vector, keyword and hybrid search of the specification on db
NoSearchFinds(db) ==
  /\ \A q \in Vectors : FindsNothing(search(db, q, MaxVectors, Undef, Undef))
  /\ \A f \in {Undef, Arr(<<TitleKey>>)} :
       FindsNothing(keywordSearch(db, QueryFox, MaxVectors, f, Undef, Undef, Undef))
  /\ \A o \in SearchInputs :
       FindsNothing(hybridSearch(db, [o EXCEPT !.k = MaxVectors]))
  /\ search(db, [i \in 1..db.dimensions |-> 1], MaxVectors, Undef, Undef).error = "none"
  /\ keywordSearch(db, QueryFox, MaxVectors, Arr(<<TitleKey>>), Undef, Undef,
                   Undef).error = "none"

\* clear() turned the store before into the store after
Cleared(before, after) ==
  /\ after.vectors = <<>>
  /\ after.dimensions = before.dimensions
  /\ after.distance = before.distance
  /\ after.bm25TextFields = before.bm25TextFields
  /\ before.bm25Index.t = "null" => after.bm25Index.t = "null"
  /\ before.bm25Index.t # "null" =>
       after.bm25Index =
         [before.bm25Index EXCEPT !.documents = <<>>,
                                  !.documentFrequencies = [term \in {} |-> 0],
                                  !.totalDocLength = 0]
  /\ NoSearchFinds(after)
  /\ \A id \in Ids, r \in Records :
       Len(r.vector) = after.dimensions =>
         /\ insert(after, id, r.vector, r.metadata).error = "none"
         /\ Has(insert(after, id, r.vector, r.metadata).db, id)

C24_ClearEmptiesTheStore ==
  [][ret'.op = "clear" => Cleared(Self, Self')]_vars

\* clear was called on a store that has a BM25 index, which is empty now
C24_Witness ==
  /\ ret.op = "clear"
  /\ vectors = <<>>
  /\ bm25Index.t # "null"
  /\ bm25Index.documents = <<>>
  /\ bm25TextFields # <<>>


\* ------------------------------------------------------------------------
\* C25  configureBM25 with the text fields of the index the store has keeps
\*      the index and sets its k1 and b to the values supplied
\* ------------------------------------------------------------------------

\* C25 as stated: after configureBM25 with a k1, the index has this k1
C25_AsStated ==
  (ret.op = "configureBM25" /\ ret.error = "none" /\ ret.args.k1.t = "number") =>
    bm25Index.k1 = ret.args.k1.v

\* what the code does: configureBM25 with the text fields of the index the
\* store has changes nothing, whatever k1 and b are supplied
C25_SameFieldsChangeNothing ==
  [][(ret'.op = "configureBM25" /\ bm25Index.t # "null"
      /\ bm25TextFields = ret'.args.textFields) => Self' = Self]_vars

\* configureBM25 was called with k1 = 2 and the index still has k1 = 1.2
C25_ParametersNotUpdated ==
  /\ ret.op = "configureBM25"
  /\ ret.args.k1 = Num(Rat(2, 1))
  /\ bm25Index.k1 = DefaultK1
  /\ Len(bm25Index.documents) > 0


\* ------------------------------------------------------------------------
\* C26  search without filter and threshold returns the min(k, n) nearest
\*      of the n stored records
\* ------------------------------------------------------------------------

\* a search with k >= 0 and neither filter nor minSimilarity has returned
PlainSearch ==
  /\ ret.op = "search"
  /\ ret.error = "none"
  /\ ret.args.k >= 0
  /\ ret.args.filter.t = "undefined"
  /\ ret.args.minSimilarity.t = "undefined"

\* the distance of the stored record i to the query of the last search
DistanceTo(i) ==
  calculateDistance(distance, ret.args.query, vectors[i].vector, Undef, Undef)

\* the results of the last search are the min(k, size of pool) nearest
\* records of pool, a set of positions of stored records: so many results,
\* each a record of pool with its distance to the query, no id twice, and no
\* record of pool left out is nearer than a record returned
NearestOf(pool) ==
  /\ Len(ret.value) = (IF ret.args.k < Cardinality(pool) THEN ret.args.k
                       ELSE Cardinality(pool))
  /\ \A r \in DOMAIN ret.value :
       /\ \E i \in pool : /\ vectors[i].id = ret.value[r].id
                          /\ DistanceTo(i) = ret.value[r].distance
       /\ \A q \in DOMAIN ret.value : q # r => ret.value[q].id # ret.value[r].id
  /\ \A i \in pool :
       (\A r \in DOMAIN ret.value : ret.value[r].id # vectors[i].id) =>
         \A r \in DOMAIN ret.value :
           CompareReal(DistanceTo(i), ret.value[r].distance) >= 0

\* C26 as stated: a search without filter and threshold returns the
\* min(k, n) nearest of all n stored records, whatever the metric
C26_AsStated == PlainSearch => NearestOf(DOMAIN vectors)

\* C26: a search without filter and threshold returns the min(k, m) nearest
\* of the m stored records whose similarity to the query is not below 0, in
\* non-decreasing order of distance; with the euclidean metric these are all
\* the stored records
C26_NearestOfNonNegativeSimilarity ==
  PlainSearch =>
    /\ NearestOf(Matching)
    /\ SearchResultsInOrder
    /\ distance = "euclidean" => Matching = DOMAIN vectors

\* a search without filter and threshold for 2 records on a cosine store
\* of 2 records returned the nearer one alone: the other has a negative
\* similarity to the query
C26_Witness ==
  /\ PlainSearch
  /\ distance = "cosine"
  /\ Len(vectors) = 2
  /\ ret.args.k = 2
  /\ Len(ret.value) = 1
  /\ Cardinality(Matching) = 1


\* ------------------------------------------------------------------------
\* C27  the metadata of a keyword-mode result is the metadata the store
\*      holds for the id, also in a store made by import
\* ------------------------------------------------------------------------

\* a keyword-mode search has returned
KeywordModeReturned ==
  /\ ret.op = "hybridSearch"
  /\ ret.args.mode = "keyword"
  /\ ret.error = "none"

\* C27 as stated: every result of a keyword-mode search for a stored id
\* carries the metadata the store holds for the id
C27_AsStated ==
  KeywordModeReturned =>
    \A i \in DOMAIN ret.value :
      Has(Self, ret.value[i].id) =>
        ret.value[i].metadata = Stored(Self, ret.value[i].id).metadata

\* a keyword-mode search on an imported store returned a record without
\* metadata although the store holds metadata for it
C27_MetadataMissing ==
  /\ KeywordModeReturned
  /\ \E i \in DOMAIN ret.value :
       /\ Has(Self, ret.value[i].id)
       /\ ret.value[i].metadata = Undef
       /\ Stored(Self, ret.value[i].id).metadata = MetaFox


\* ------------------------------------------------------------------------
\* C28  import yields a store that satisfies the store invariants, for
\*      every snapshot of the persisted shape
\* ------------------------------------------------------------------------

\* every stored vector has the length of the store
VectorsHaveTheDimensions == \A i \in DOMAIN vectors : Len(vectors[i].vector) = dimensions

\* no id is stored twice
IdsAreUnique ==
  \A i, j \in DOMAIN vectors : vectors[i].id = vectors[j].id => i = j

\* the documents of the index, when there is one, are the stored records
IndexHoldsTheRecords ==
  bm25Index.t # "null" =>
    {bm25Index.documents[i].id : i \in DOMAIN bm25Index.documents}
      = {vectors[i].id : i \in DOMAIN vectors}

\* C28 as stated: the store import returns has vectors of the length of the
\* store, no id twice, and an index whose documents are the stored records
C28_AsStated ==
  ret.op = "import" =>
    /\ VectorsHaveTheDimensions
    /\ IdsAreUnique
    /\ IndexHoldsTheRecords

\* the snapshot has vectors of the length it names, no id twice, and when
\* it has an index, the documents of the index are its vectors
SoundSnapshot(data) ==
  /\ \A i \in DOMAIN data.vectors : Len(data.vectors[i].vector) = data.dimensions
  /\ \A i, j \in DOMAIN data.vectors :
       data.vectors[i].id = data.vectors[j].id => i = j
  /\ data.bm25Index.t # "undefined" =>
       {data.bm25Index.documents[i].id : i \in DOMAIN data.bm25Index.documents}
         = {data.vectors[i].id : i \in DOMAIN data.vectors}

\* what holds of import: the store has no id twice, whatever the snapshot,
\* and it has the other two invariants when the snapshot has them
C28_ImportKeepsWhatTheSnapshotHas ==
  /\ IdsAreUnique
  /\ (ret.op = "import" /\ SoundSnapshot(ret.args.data)) =>
       VectorsHaveTheDimensions /\ IndexHoldsTheRecords

\* import has returned a store of 1 dimension that holds a vector of 2
\* components
C28_WrongLengthLoaded ==
  /\ ret.op = "import"
  /\ dimensions = 1
  /\ \E i \in DOMAIN vectors : Len(vectors[i].vector) = 2

\* import has returned a store whose index has a document for an id that
\* the store does not hold
C28_IndexOfOtherRecordsLoaded ==
  /\ ret.op = "import"
  /\ bm25Index.t # "null"
  /\ \E i \in DOMAIN bm25Index.documents : ~Has(Self, bm25Index.documents[i].id)


\* ------------------------------------------------------------------------
\* C29  a snapshot, the store it was exported from and the store imported
\*      from it are independent under insert, upsert, delete and clear
\* ------------------------------------------------------------------------

\* the last call was made on the store who
CalledOn(who) ==
  /\ ret.op \in {"insert", "upsert", "delete", "clear"}
  /\ ret.on = who

\* C29: no call of insert, upsert, delete or clear, on the store or on the
\* imported store, changes what the snapshot reads (ids, vectors, metadata
\* and the serialized index); no such call on the imported store changes the
\* store it was exported from, and no such call on that store changes the
\* imported store
C29_SnapshotAndStoresAreIndependent ==
  [][/\ heap.snapshot.t # "null" => SnapshotRead(heap') = SnapshotRead(heap)
     /\ (ret'.op \in {"insert", "upsert", "delete", "clear"}
         /\ ret'.on = "imported") => Self' = Self
     /\ (ret'.op \in {"insert", "upsert", "delete", "clear"}
         /\ ret'.on = "store" /\ heap.imported.t # "null") =>
          heap'.imported.db = heap.imported.db]_vars

\* upsert has replaced, in the store, a record that the snapshot holds and
\* that the imported store holds: the store has the new vector, the snapshot
\* and the imported store the old one
C29_Witness ==
  /\ CalledOn("store")
  /\ ret.op = "upsert"
  /\ ret.error = "none"
  /\ heap.snapshot.t # "null"
  /\ heap.imported.t # "null"
  /\ bm25Index.t # "null"
  /\ \E i \in DOMAIN SnapshotRead(heap).vectors :
       /\ SnapshotRead(heap).vectors[i].id = ret.args.id
       /\ SnapshotRead(heap).vectors[i].vector = <<1>>
       /\ Stored(Self, ret.args.id).vector = <<3>>
       /\ Has(heap.imported.db, ret.args.id)
       /\ Stored(heap.imported.db, ret.args.id).vector = <<1>>


\* ------------------------------------------------------------------------
\* C30  the registry of named stores under createDB, getDB, getOrCreateDB,
\*      importDB, deleteDB, clearCache and listDBs
\* ------------------------------------------------------------------------

\* the names the registry has
RegisteredNames(cache) == {cache[i].name : i \in DOMAIN cache}

\* the entries of the registry under the other names
OtherEntries(cache, name) ==
  SelectIndices(cache, [i \in DOMAIN cache |-> cache[i].name # name])

\* C30: createDB on a registered name fails and leaves the registry, and
\* with it the registered store, as it is; getDB on a name that is not
\* registered fails; deleteDB returns true exactly when the name was
\* registered, and afterwards getDB on the name fails; importDB registers the
\* imported store under the name, in place of the store registered there, and
\* leaves the other entries; listDBs returns the registered names, each once
C30_RegistryFunctions ==
  [][/\ (ret'.op = "createDB" /\ Registered(dbCache, ret'.args.name)) =>
          ret'.error # "none" /\ dbCache' = dbCache
     /\ (ret'.op = "getDB" /\ ~Registered(dbCache, ret'.args.name)) =>
          ret'.error # "none"
     /\ ret'.op = "deleteDB" =>
          /\ ret'.error = "none"
          /\ ret'.value = Registered(dbCache, ret'.args.name)
          /\ getDB(dbCache', ret'.args.name).error # "none"
          /\ OtherEntries(dbCache', ret'.args.name) = dbCache'
          /\ OtherEntries(dbCache, ret'.args.name) = dbCache'
     /\ ret'.op = "importDB" =>
          /\ ret'.error = "none"
          /\ getDB(dbCache', ret'.args.name) =
               Done(dbCache', import(ret'.args.data))
          /\ Len(dbCache') = Cardinality(RegisteredNames(dbCache'))
          /\ OtherEntries(dbCache', ret'.args.name)
               = OtherEntries(dbCache, ret'.args.name)
     /\ ret'.op = "listDBs" =>
          /\ ret'.error = "none"
          /\ {ret'.value[i] : i \in DOMAIN ret'.value} = RegisteredNames(dbCache)
          /\ Len(ret'.value) = Cardinality(RegisteredNames(dbCache))
          /\ dbCache' = dbCache]_vars

\* createDB with the options of a store of 1 dimension has failed on a name
\* under which, beside another store, a store of 2 dimensions is registered
C30_Witness ==
  /\ ret.op = "createDB"
  /\ ret.error = "AlreadyExists"
  /\ ret.args.options.dimensions = 1
  /\ Len(dbCache) = 2
  /\ RegisteredDB(dbCache, ret.args.name).dimensions = 2

====
